---- MODULE Spec2Model ----
(***************************************************************************)
(* A model of the PHN proof-of-work node: the in-memory chain, block and   *)
(* transaction validation (POUV), the checkpoint map, and pull-based peer  *)
(* synchronisation with per-peer health.                                   *)
(*                                                                         *)
(* Amounts are integers counted in units of 0.00001 PHN, the smallest      *)
(* amount the code names (the reward floor of get_current_block_reward).   *)
(* Every tolerance of 1e-9 PHN in the code is below one unit, so "equal    *)
(* within 1e-9" is equality of units.  The configured supply (TOTALSUPPLY, *)
(* read from the environment by settings.py) is 10,000 PHN, so that every  *)
(* sum of amounts stays inside TLC's 32-bit integers.                      *)
(***************************************************************************)
EXTENDS Integers, Sequences, FiniteSets, TLC

\* ------------------------------------------------------------ settings
STARTING_BLOCK_REWARD == 5000000
HALVING_INTERVAL == 1800000
MIN_TX_FEE == 2000
DIFFICULTY == 3
TOTAL_SUPPLY == 1000000000
MIN_BLOCK_REWARD == 1
MAX_TX_AGE == 3600
MAX_CLOCK_SKEW == 60
TXID_LENGTH == 64
PUBLIC_KEY_LENGTH == 128
checkpoint_interval == 100
max_reorg_depth == 10
max_failures == 3

\* ------------------------------------------------------------ bounds
\* Longest chain the small scenario grows to (genesis included).
MaxChain == 3
\* Most transactions in a submitted block.
MaxBlockTxs == 4
\* Cap on a peer's consecutive-failure counter.
MaxFailures == 1
\* Length of the chain the long scenario starts from, and how far it grows.
LongStart == 100
LongGrow == 2
\* Longest chain while clients submit transactions (genesis included).
TxMaxChain == 2

\* ------------------------------------------------------------ identities
OwnerKey == "pk_owner"
MinerKey == "pk_miner"
OwnerAddr == "PHN_owner"
MinerAddr == "PHN_miner"
UserAddr == "PHN_user"
IntruderAddr == "PHN_intruder"
PublicKeys == {OwnerKey, MinerKey}
SystemSenders == {"coinbase", "miners_pool"}

\* The length of a sender or address string: a public key is 128 hex
\* characters, an address "PHN" + 40 and the two system literals shorter.
StrLen(s) ==
  CASE s \in PublicKeys -> PUBLIC_KEY_LENGTH
    [] s = "coinbase" -> 8
    [] s = "miners_pool" -> 11
    [] OTHER -> 43

\* "PHN" + first 40 hex characters of SHA-256 of the key bytes.
public_key_to_address(public_key_hex) ==
  CASE public_key_hex = OwnerKey -> OwnerAddr
    [] public_key_hex = MinerKey -> MinerAddr
    [] OTHER -> ""

\* ------------------------------------------------------------ hashing
\* SHA-256 is modelled as collision free: the digest of a block is the list
\* of what enters the canonical encoding (every field but "hash"), written
\* as the block's own fields followed by the digest it links to.  The
\* all-zero hash of the genesis link is the empty list.
ZERO_HASH == <<>>

hash_block(block) ==
  <<<<block.index, block.timestamp, block.transactions, block.nonce>>>>
    \o block.prev_hash

\* Number of leading '0' characters of a digest.  Proof of work is a search
\* over the nonce; the digest of a block with nonce n starts with 3n zeros.
LeadingZeros(h) == IF h = ZERO_HASH THEN TXID_LENGTH ELSE 3 * h[1][4]

\* expected.startswith("0" * n)
StartsWithZeros(h, n) == LeadingZeros(h) >= n

\* A block with the hash field computed from its content.
SealBlock(index, timestamp, transactions, prev_hash, nonce) ==
  LET content == [index |-> index, timestamp |-> timestamp,
                  transactions |-> transactions, prev_hash |-> prev_hash,
                  nonce |-> nonce]
  IN  [index |-> index, timestamp |-> timestamp, transactions |-> transactions,
       prev_hash |-> prev_hash, nonce |-> nonce, hash |-> hash_block(content)]

\* ------------------------------------------------------------ genesis
T0 == 0

GenesisTxid == <<"genesis", 0>>

GenesisTx ==
  [sender |-> "coinbase", recipient |-> OwnerAddr,
   amount |-> TOTAL_SUPPLY \div 10, fee |-> 0, timestamp |-> T0,
   txid |-> GenesisTxid, signature |-> "genesis"]

create_genesis_block == SealBlock(0, T0, <<GenesisTx>>, ZERO_HASH, 0)

\* ------------------------------------------------------------ balance
\* What one transaction adds to the balance of `address` (get_balance's loop
\* body: credit as recipient; debit as sender, by exact match or, for a
\* public-key sender, by its derived address).
TxDelta(tx, address) ==
  (IF tx.recipient = address THEN tx.amount ELSE 0)
  - (IF tx.sender = address
       THEN tx.amount + tx.fee
       ELSE IF /\ tx.sender \notin SystemSenders
               /\ StrLen(tx.sender) = PUBLIC_KEY_LENGTH
               /\ public_key_to_address(tx.sender) = address
              THEN tx.amount + tx.fee
              ELSE 0)

RECURSIVE SumTxs(_, _)
SumTxs(txs, address) ==
  IF txs = <<>> THEN 0
  ELSE TxDelta(Head(txs), address) + SumTxs(Tail(txs), address)

RECURSIVE SumChain(_, _)
SumChain(chain, address) ==
  IF chain = <<>> THEN 0
  ELSE SumTxs(chain[Len(chain)].transactions, address)
       + SumChain(SubSeq(chain, 1, Len(chain) - 1), address)

\* The balance when only the chain is counted, the pending pool ignored.
get_balance_chain_only(address, chain, pending) ==
  IF address = "" THEN 0
  ELSE LET a == IF StrLen(address) = PUBLIC_KEY_LENGTH
                  THEN public_key_to_address(address) ELSE address
       IN  SumChain(chain, a)

get_balance(address, chain, pending) ==
  IF address = "" THEN 0
  ELSE LET a == IF StrLen(address) = PUBLIC_KEY_LENGTH
                  THEN public_key_to_address(address) ELSE address
       IN  SumChain(chain, a) + SumTxs(pending, a)

\* ------------------------------------------------------------ reward
\* The body of get_current_block_reward, len(blockchain) being current_height.
RewardAtHeight(current_height) ==
  LET halvings == current_height \div HALVING_INTERVAL
      reward == STARTING_BLOCK_REWARD \div (2 ^ halvings)
  IN  IF reward > MIN_BLOCK_REWARD THEN reward ELSE MIN_BLOCK_REWARD

get_current_block_reward(chain) == RewardAtHeight(Len(chain))

\* ------------------------------------------------------------ POUV
\* An ECDSA signature is modelled by what verification makes of it: "signed"
\* verifies under the sender's key over the transaction content, "forged" is
\* a well-formed signature that does not; "" and "genesis" are the literals.
validate_signature(tx) ==
  IF tx.sender \in SystemSenders
    THEN tx.signature = "genesis"
    ELSE /\ tx.signature # ""
         /\ tx.signature # "genesis"
         /\ tx.sender \in PublicKeys
         /\ tx.signature = "signed"

\* A txid is a pair <<kind, number>>; the kind "short" stands for a string
\* that is not 64 characters long.
TxidLen(txid) == IF txid[1] = "short" THEN 8 ELSE TXID_LENGTH

TxidInChain(txid, chain) ==
  \E i \in 1..Len(chain) :
    \E j \in 1..Len(chain[i].transactions) : chain[i].transactions[j].txid = txid

\* db.save_validation_record: the record of a txid is overwritten.
_save_pouv_record(validation, txid, status, reason) ==
  [t \in DOMAIN validation \cup {txid} |->
     IF t = txid THEN [status |-> status, reason |-> reason] ELSE validation[t]]

RequiredFields ==
  {"sender", "recipient", "amount", "fee", "timestamp", "txid", "signature"}

\* The validation with a timestamp window that excludes its two ends.
validate_transaction_pouv_exclusive(tx, chain, pending, validation, current_time) ==
  LET Reject(reason) ==
        [ok |-> FALSE, reason |-> reason,
         validation |-> _save_pouv_record(validation, tx.txid, "invalid", reason)]
  IN
  IF tx.txid \in DOMAIN validation
    THEN IF validation[tx.txid].status = "valid"
           THEN IF TxidInChain(tx.txid, chain)
                  THEN [ok |-> FALSE, reason |-> "replay", validation |-> validation]
                  ELSE [ok |-> TRUE, reason |-> "ok", validation |-> validation]
           ELSE [ok |-> FALSE, reason |-> "previously rejected",
                 validation |-> validation]
  ELSE IF ~(RequiredFields \subseteq DOMAIN tx)
    THEN Reject("missing field")
  ELSE IF tx.timestamp >= current_time + MAX_CLOCK_SKEW
    THEN Reject("future")
  ELSE IF current_time - tx.timestamp >= MAX_TX_AGE
    THEN Reject("too old")
  ELSE IF tx.sender \notin SystemSenders /\ ~validate_signature(tx)
    THEN Reject("invalid signature")
  ELSE IF TxidLen(tx.txid) # TXID_LENGTH
    THEN Reject("invalid txid format")
  ELSE IF tx.amount <= 0
    THEN Reject("amount must be positive")
  ELSE IF tx.fee < MIN_TX_FEE /\ tx.sender \notin SystemSenders
    THEN Reject("fee too low")
  ELSE IF /\ tx.sender \notin SystemSenders
          /\ get_balance(tx.sender, chain, pending) < tx.amount + tx.fee
    THEN Reject("insufficient balance")
  ELSE [ok |-> TRUE, reason |-> "ok",
        validation |-> _save_pouv_record(validation, tx.txid, "valid", "ok")]

\* validate_transaction_pouv: the verdict and the validation records it
\* leaves behind.
validate_transaction_pouv(tx, chain, pending, validation, current_time) ==
  LET Reject(reason) ==
        [ok |-> FALSE, reason |-> reason,
         validation |-> _save_pouv_record(validation, tx.txid, "invalid", reason)]
  IN
  IF tx.txid \in DOMAIN validation
    THEN IF validation[tx.txid].status = "valid"
           THEN IF TxidInChain(tx.txid, chain)
                  THEN [ok |-> FALSE, reason |-> "replay", validation |-> validation]
                  ELSE [ok |-> TRUE, reason |-> "ok", validation |-> validation]
           ELSE [ok |-> FALSE, reason |-> "previously rejected",
                 validation |-> validation]
  ELSE IF ~(RequiredFields \subseteq DOMAIN tx)
    THEN Reject("missing field")
  ELSE IF tx.timestamp > current_time + MAX_CLOCK_SKEW
    THEN Reject("future")
  ELSE IF current_time - tx.timestamp > MAX_TX_AGE
    THEN Reject("too old")
  ELSE IF tx.sender \notin SystemSenders /\ ~validate_signature(tx)
    THEN Reject("invalid signature")
  ELSE IF TxidLen(tx.txid) # TXID_LENGTH
    THEN Reject("invalid txid format")
  ELSE IF tx.amount <= 0
    THEN Reject("amount must be positive")
  ELSE IF tx.fee < MIN_TX_FEE /\ tx.sender \notin SystemSenders
    THEN Reject("fee too low")
  ELSE IF /\ tx.sender \notin SystemSenders
          /\ get_balance(tx.sender, chain, pending) < tx.amount + tx.fee
    THEN Reject("insufficient balance")
  ELSE [ok |-> TRUE, reason |-> "ok",
        validation |-> _save_pouv_record(validation, tx.txid, "valid", "ok")]

\* ------------------------------------------------------------ blocks
\* The transaction loop of validate_block from position i on: acc carries
\* seen, coinbase_count, coinbase_amount, total_fees and the validation
\* records; the loop stops at the first failure.
RECURSIVE ScanBlockTxs(_, _, _, _, _, _)
ScanBlockTxs(txs, i, acc, chain, pending, current_time) ==
  IF i > Len(txs) THEN acc
  ELSE
    LET tx == txs[i] IN
    IF tx.txid \in acc.seen
      THEN [acc EXCEPT !.ok = FALSE, !.reason = "duplicate or missing txid"]
    ELSE
      LET seen == acc.seen \cup {tx.txid} IN
      IF tx.sender = "coinbase"
        THEN ScanBlockTxs(txs, i + 1,
               [acc EXCEPT !.seen = seen,
                           !.coinbase_count = @ + 1,
                           !.coinbase_amount = @ + tx.amount],
               chain, pending, current_time)
      ELSE IF tx.sender = "miners_pool"
        THEN ScanBlockTxs(txs, i + 1, [acc EXCEPT !.seen = seen],
               chain, pending, current_time)
      ELSE
        LET v == validate_transaction_pouv(tx, chain, pending, acc.validation,
                                           current_time)
        IN  IF ~v.ok
              THEN [acc EXCEPT !.seen = seen, !.ok = FALSE,
                               !.reason = "invalid tx in block",
                               !.validation = v.validation]
              ELSE ScanBlockTxs(txs, i + 1,
                     [acc EXCEPT !.seen = seen,
                                 !.total_fees = @ + tx.fee,
                                 !.validation = v.validation],
                     chain, pending, current_time)

\* The recipient of the first coinbase transaction, "" when there is none.
MinerAddressOf(txs) ==
  IF \E j \in 1..Len(txs) : txs[j].sender = "coinbase"
    THEN LET j == CHOOSE j \in 1..Len(txs) :
                    /\ txs[j].sender = "coinbase"
                    /\ \A k \in 1..(j - 1) : txs[k].sender # "coinbase"
         IN  txs[j].recipient
    ELSE ""

\* validate_block(block) against the chain: the verdict and the validation
\* records the embedded POUV runs leave behind.
validate_block(block, chain, pending, validation, current_time) ==
  LET Verdict(ok, reason, val) == [ok |-> ok, reason |-> reason, validation |-> val]
      last == chain[Len(chain)]
      expected == hash_block(block)
  IN
  IF Len(chain) > 0 /\ block.index # last.index + 1
    THEN Verdict(FALSE, "invalid index", validation)
  ELSE IF Len(chain) > 0 /\ block.prev_hash # last.hash
    THEN Verdict(FALSE, "prev_hash mismatch", validation)
  ELSE IF Len(chain) = 0 /\ block.index # 0
    THEN Verdict(FALSE, "genesis index must be 0", validation)
  ELSE IF block.hash # expected
    THEN Verdict(FALSE, "hash mismatch", validation)
  ELSE IF ~StartsWithZeros(expected, DIFFICULTY)
    THEN Verdict(FALSE, "does not meet difficulty", validation)
  ELSE
    LET scan == ScanBlockTxs(block.transactions, 1,
                  [seen |-> {}, coinbase_count |-> 0, coinbase_amount |-> 0,
                   total_fees |-> 0, validation |-> validation,
                   ok |-> TRUE, reason |-> "ok"],
                  chain, pending, current_time)
        txs == block.transactions
        miner_address == MinerAddressOf(txs)
    IN
    IF ~scan.ok
      THEN Verdict(FALSE, scan.reason, scan.validation)
    ELSE IF scan.coinbase_count # 1
      THEN Verdict(FALSE, "exactly one coinbase tx required", scan.validation)
    ELSE IF scan.coinbase_amount # get_current_block_reward(chain)
      THEN Verdict(FALSE, "coinbase must equal current reward", scan.validation)
    ELSE IF scan.total_fees > 0 /\ miner_address = ""
      THEN Verdict(FALSE, "cannot determine miner address", scan.validation)
    ELSE IF /\ scan.total_fees > 0
            /\ ~\E j \in 1..Len(txs) :
                  /\ txs[j].sender = "miners_pool"
                  /\ txs[j].recipient = miner_address
                  /\ txs[j].amount = scan.total_fees
      THEN Verdict(FALSE, "miners_pool fee payout missing or incorrect",
                   scan.validation)
    ELSE Verdict(TRUE, "ok", scan.validation)

\* verify_blockchain(chain): hash of every block, link of every block but
\* the first.  Nothing else is looked at.
verify_blockchain(chain) ==
  /\ chain # <<>>
  /\ \A i \in 1..Len(chain) :
       /\ chain[i].hash = hash_block(chain[i])
       /\ i > 1 => chain[i].prev_hash = chain[i - 1].hash

\* ------------------------------------------------------------ mempool
\* A mempool is [priority_queue, tx_index]: the heap array of entries
\* (-fee, timestamp, txid, tx) and the txid -> transaction index.
\* Python compares the entry tuples lexicographically; txids, hex strings in
\* the code, are ordered here by kind and number.
KindRank(kind) ==
  CASE kind = "cb" -> 1 [] kind = "genesis" -> 2 [] kind = "p1" -> 3
    [] kind = "p2" -> 4 [] kind = "px" -> 5 [] kind = "short" -> 6
    [] kind = "u" -> 7 [] OTHER -> 8

TxidLess(a, b) ==
  \/ KindRank(a[1]) < KindRank(b[1])
  \/ KindRank(a[1]) = KindRank(b[1]) /\ a[2] < b[2]

EntryLess(a, b) ==
  \/ a.neg_fee < b.neg_fee
  \/ a.neg_fee = b.neg_fee /\ a.timestamp < b.timestamp
  \/ a.neg_fee = b.neg_fee /\ a.timestamp = b.timestamp /\ TxidLess(a.txid, b.txid)

\* heapq._siftdown(heap, startpos, pos), positions counted from 0.
RECURSIVE SiftDownFrom(_, _, _, _)
SiftDownFrom(heap, startpos, pos, newitem) ==
  IF pos > startpos
    THEN LET parentpos == (pos - 1) \div 2
             parent == heap[parentpos + 1]
         IN  IF EntryLess(newitem, parent)
               THEN SiftDownFrom([heap EXCEPT ![pos + 1] = parent],
                                 startpos, parentpos, newitem)
               ELSE [heap EXCEPT ![pos + 1] = newitem]
    ELSE [heap EXCEPT ![pos + 1] = newitem]

\* The child-promoting loop of heapq._siftup: the heap and the leaf reached.
RECURSIVE SiftUpLoop(_, _)
SiftUpLoop(heap, pos) ==
  LET endpos == Len(heap)
      childpos == 2 * pos + 1
      rightpos == childpos + 1
  IN  IF childpos < endpos
        THEN LET c == IF /\ rightpos < endpos
                         /\ ~EntryLess(heap[childpos + 1], heap[rightpos + 1])
                        THEN rightpos ELSE childpos
             IN  SiftUpLoop([heap EXCEPT ![pos + 1] = heap[c + 1]], c)
        ELSE [heap |-> heap, pos |-> pos]

SiftUp(heap, pos) ==
  LET newitem == heap[pos + 1]
      r == SiftUpLoop(heap, pos)
  IN  SiftDownFrom(r.heap, pos, r.pos, newitem)

heappush(heap, item) ==
  LET h == Append(heap, item) IN SiftDownFrom(h, 0, Len(h) - 1, item)

\* heappop: the heap that is left (the popped item is heap[1]).
heappop(heap) ==
  LET lastelt == heap[Len(heap)]
      rest == SubSeq(heap, 1, Len(heap) - 1)
  IN  IF rest = <<>> THEN rest ELSE SiftUp([rest EXCEPT ![1] = lastelt], 0)

RECURSIVE HeapifyFrom(_, _)
HeapifyFrom(heap, i) ==
  IF i < 0 THEN heap ELSE HeapifyFrom(SiftUp(heap, i), i - 1)

heapify(heap) == HeapifyFrom(heap, (Len(heap) \div 2) - 1)

\* A dictionary with no keys.
EmptyMap == [x \in {} |-> 0]

EmptyMempool == [priority_queue |-> <<>>, tx_index |-> EmptyMap]

_validate_structure(tx) == RequiredFields \subseteq DOMAIN tx

DropKey(f, k) == [x \in DOMAIN f \ {k} |-> f[x]]

PutKey(f, k, v) == [x \in DOMAIN f \cup {k} |-> IF x = k THEN v ELSE f[x]]

SelectEntries(q, txid) ==
  LET Keep(e) == e.txid # txid IN SelectSeq(q, Keep)

\* add_transaction without the size limit: nothing is refused or evicted
\* when the queue is full.
add_transaction_unbounded(mempool, tx, current_time, max_size, max_tx_age) ==
  LET Refuse(reason) == [ok |-> FALSE, reason |-> reason, mempool |-> mempool]
      entry == [neg_fee |-> 0 - tx.fee, timestamp |-> tx.timestamp,
                txid |-> tx.txid, tx |-> tx]
  IN
  IF ~_validate_structure(tx) THEN Refuse("invalid transaction structure")
  ELSE IF tx.txid \in DOMAIN mempool.tx_index
    THEN Refuse("transaction already in mempool")
  ELSE IF current_time - tx.timestamp > max_tx_age
    THEN Refuse("transaction too old")
  ELSE [ok |-> TRUE, reason |-> "added to mempool",
        mempool |-> [priority_queue |-> heappush(mempool.priority_queue, entry),
                     tx_index |-> PutKey(mempool.tx_index, tx.txid, tx)]]

\* add_transaction without the test for a txid that is already resident.
add_transaction_unindexed(mempool, tx, current_time, max_size, max_tx_age) ==
  LET Refuse(reason) == [ok |-> FALSE, reason |-> reason, mempool |-> mempool]
      q == mempool.priority_queue
      full == Len(q) >= max_size /\ q # <<>>
      lowest_fee == 0 - q[1].neg_fee
      q1 == IF full THEN heappop(q) ELSE q
      index1 == IF full THEN DropKey(mempool.tx_index, q[1].txid)
                        ELSE mempool.tx_index
      entry == [neg_fee |-> 0 - tx.fee, timestamp |-> tx.timestamp,
                txid |-> tx.txid, tx |-> tx]
  IN
  IF ~_validate_structure(tx) THEN Refuse("invalid transaction structure")
  ELSE IF current_time - tx.timestamp > max_tx_age
    THEN Refuse("transaction too old")
  ELSE IF full /\ tx.fee <= lowest_fee
    THEN Refuse("mempool full - fee too low")
  ELSE [ok |-> TRUE, reason |-> "added to mempool",
        mempool |-> [priority_queue |-> heappush(q1, entry),
                     tx_index |-> PutKey(index1, tx.txid, tx)]]

\* add_transaction: [ok, reason, mempool].
add_transaction(mempool, tx, current_time, max_size, max_tx_age) ==
  LET Refuse(reason) == [ok |-> FALSE, reason |-> reason, mempool |-> mempool]
      q == mempool.priority_queue
      full == Len(q) >= max_size /\ q # <<>>
      lowest_fee == 0 - q[1].neg_fee
      q1 == IF full THEN heappop(q) ELSE q
      index1 == IF full THEN DropKey(mempool.tx_index, q[1].txid)
                        ELSE mempool.tx_index
      entry == [neg_fee |-> 0 - tx.fee, timestamp |-> tx.timestamp,
                txid |-> tx.txid, tx |-> tx]
  IN
  IF ~_validate_structure(tx) THEN Refuse("invalid transaction structure")
  ELSE IF tx.txid \in DOMAIN mempool.tx_index
    THEN Refuse("transaction already in mempool")
  ELSE IF current_time - tx.timestamp > max_tx_age
    THEN Refuse("transaction too old")
  ELSE IF full /\ tx.fee <= lowest_fee
    THEN Refuse("mempool full - fee too low")
  ELSE [ok |-> TRUE, reason |-> "added to mempool",
        mempool |-> [priority_queue |-> heappush(q1, entry),
                     tx_index |-> PutKey(index1, tx.txid, tx)]]

\* remove_transaction that deletes the txid from the index and keeps its
\* entry in the priority queue.
remove_transaction_queue_kept(mempool, txid) ==
  IF txid \notin DOMAIN mempool.tx_index THEN mempool
  ELSE [priority_queue |-> mempool.priority_queue,
        tx_index |-> DropKey(mempool.tx_index, txid)]

remove_transaction(mempool, txid) ==
  IF txid \notin DOMAIN mempool.tx_index THEN mempool
  ELSE [priority_queue |-> heapify(SelectEntries(mempool.priority_queue, txid)),
        tx_index |-> DropKey(mempool.tx_index, txid)]

\* remove_transactions that deletes the txids from the index and leaves the
\* priority queue as it is.
remove_transactions_index_only(mempool, txids) ==
  [priority_queue |-> mempool.priority_queue,
   tx_index |-> [t \in DOMAIN mempool.tx_index
                        \ {txids[i] : i \in 1..Len(txids)} |-> mempool.tx_index[t]]]

RECURSIVE remove_transactions(_, _)
remove_transactions(mempool, txids) ==
  IF txids = <<>> THEN mempool
  ELSE remove_transactions(remove_transaction(mempool, Head(txids)), Tail(txids))

\* _remove_expired: every entry older than max_tx_age is removed, in the
\* order of the queue array.
_remove_expired(mempool, current_time, max_tx_age) ==
  LET Old(e) == current_time - e.timestamp > max_tx_age
      old == SelectSeq(mempool.priority_queue, Old)
      expired == [i \in 1..Len(old) |-> old[i].txid]
  IN  remove_transactions(mempool, expired)

\* sorted(priority_queue, key = neg_fee): a stable sort, so entries of equal
\* fee keep the order they have in the queue array.
RECURSIVE SortedByNegFee(_)
SortedByNegFee(q) ==
  IF q = <<>> THEN <<>>
  ELSE LET e == q[Len(q)]
           front == SortedByNegFee(SubSeq(q, 1, Len(q) - 1))
           NotAfter(x) == x.neg_fee <= e.neg_fee
           After(x) == x.neg_fee > e.neg_fee
       IN  SelectSeq(front, NotAfter) \o <<e>> \o SelectSeq(front, After)

\* get_transactions_for_mining: the mempool after expiry and the list returned.
get_transactions_for_mining(mempool, current_time, max_tx_age, max_count) ==
  LET m == _remove_expired(mempool, current_time, max_tx_age)
      sorted_txs == SortedByNegFee(m.priority_queue)
      n == IF Len(sorted_txs) < max_count THEN Len(sorted_txs) ELSE max_count
  IN  [mempool |-> m, transactions |-> [i \in 1..n |-> sorted_txs[i].tx]]

get_size(mempool) == Len(mempool.priority_queue)

clear(mempool) == [priority_queue |-> <<>>, tx_index |-> EmptyMap]

\* ------------------------------------------------------------ checkpoints
create_checkpoint(cps, block_index, block_hash) ==
  IF block_index % checkpoint_interval = 0
    THEN PutKey(cps, block_index, block_hash)
    ELSE cps

auto_checkpoint_new_block(cps, chain) ==
  IF chain = <<>> THEN cps
  ELSE create_checkpoint(cps, chain[Len(chain)].index, chain[Len(chain)].hash)

\* chain[index] of the code is position index + 1 of the sequence.
validate_chain_against_checkpoints(cps, chain) ==
  \A index \in DOMAIN cps :
    index < Len(chain) => chain[index + 1].hash = cps[index]

\* detect_deep_reorg: TRUE when the reorganisation is too deep.  No handler
\* of the node calls it.
detect_deep_reorg(old_chain_length, new_chain_length, common_ancestor) ==
  old_chain_length - common_ancestor > max_reorg_depth

\* ------------------------------------------------------------ storage
\* LMDBStorage.save_blockchain: the blocks table is cleared and every block
\* is put under the key of its own index field, a later block replacing an
\* earlier one with the same index.
LmdbSave(chain) ==
  [k \in {chain[i].index : i \in 1..Len(chain)} |->
     chain[CHOOSE i \in 1..Len(chain) :
             /\ chain[i].index = k
             /\ \A j \in (i + 1)..Len(chain) : chain[j].index # k]]

\* ------------------------------------------------------------ peer health
\* A health state is [peer_health, failed_peers].
\* mark_success that resets the record and leaves the failed set as it is.
mark_success_undiscarded(health, peer_url) ==
  [peer_health |-> PutKey(health.peer_health, peer_url,
                          [failures |-> 0, status |-> "healthy"]),
   failed_peers |-> health.failed_peers]

mark_success(health, peer_url) ==
  [peer_health |-> PutKey(health.peer_health, peer_url,
                          [failures |-> 0, status |-> "healthy"]),
   failed_peers |-> health.failed_peers \ {peer_url}]

\* mark_failure that counts the failure but never marks the peer as failed.
mark_failure_counting(health, peer_url) ==
  LET known == peer_url \in DOMAIN health.peer_health
      failures == IF known THEN health.peer_health[peer_url].failures + 1 ELSE 1
      status == IF known THEN health.peer_health[peer_url].status ELSE "degraded"
  IN  [peer_health |-> PutKey(health.peer_health, peer_url,
                              [failures |-> failures, status |-> status]),
       failed_peers |-> health.failed_peers]

mark_failure(health, peer_url) ==
  LET known == peer_url \in DOMAIN health.peer_health
      failures == IF known THEN health.peer_health[peer_url].failures + 1 ELSE 1
      status == IF failures >= max_failures THEN "failed"
                ELSE IF known THEN health.peer_health[peer_url].status
                ELSE "degraded"
  IN  [peer_health |-> PutKey(health.peer_health, peer_url,
                              [failures |-> failures, status |-> status]),
       failed_peers |-> IF failures >= max_failures
                          THEN health.failed_peers \cup {peer_url}
                          ELSE health.failed_peers]

is_healthy(health, peer_url) ==
  IF peer_url \in health.failed_peers THEN FALSE
  ELSE IF peer_url \notin DOMAIN health.peer_health THEN TRUE
  ELSE health.peer_health[peer_url].status # "failed"

get_healthy_peers(health, all_peers) ==
  {p \in all_peers : is_healthy(health, p)}

FailuresOf(health, peer_url) ==
  IF peer_url \in DOMAIN health.peer_health
    THEN health.peer_health[peer_url].failures ELSE 0

\* try_recover_peers: every failed peer is pinged, pong[p] telling whether p
\* answered 200; those that answered are marked as successes.
RECURSIVE MarkRecovered(_, _)
MarkRecovered(health, recovered) ==
  IF recovered = {} THEN health
  ELSE LET p == CHOOSE x \in recovered : TRUE
       IN  MarkRecovered(mark_success(health, p), recovered \ {p})

try_recover_peers(health, pong) ==
  MarkRecovered(health, {p \in health.failed_peers : pong[p]})

\* ------------------------------------------------------------ difficulty
target_block_time == 60

adjustment_interval == 10

min_difficulty == 1

max_difficulty == 10

starting_difficulty == 3

Max2(a, b) == IF a >= b THEN a ELSE b

Min2(a, b) == IF a <= b THEN a ELSE b

\* _get_current_difficulty: the leading zeros of the last block's hash,
\* brought into [min_difficulty, max_difficulty].
_get_current_difficulty(chain) ==
  IF chain = <<>> THEN starting_difficulty
  ELSE Max2(min_difficulty,
            Min2(max_difficulty, LeadingZeros(chain[Len(chain)].hash)))

\* calculate_difficulty.  adjustment_ratio = expected_time / time_taken is
\* compared with 1.5 and with 0.67 by cross-multiplication.
calculate_difficulty(chain) ==
  IF Len(chain) <= 1 THEN starting_difficulty
  ELSE IF Len(chain) < adjustment_interval THEN _get_current_difficulty(chain)
  ELSE IF Len(chain) % adjustment_interval # 0 THEN _get_current_difficulty(chain)
  ELSE LET first == chain[Len(chain) - adjustment_interval + 1]
           time_taken == chain[Len(chain)].timestamp - first.timestamp
           expected_time == target_block_time * adjustment_interval
           ratio_num == IF time_taken > 0 THEN expected_time ELSE 1
           ratio_den == IF time_taken > 0 THEN time_taken ELSE 1
           current_difficulty == _get_current_difficulty(chain)
       IN  IF 10 * ratio_num > 15 * ratio_den
             THEN Max2(min_difficulty, current_difficulty - 1)
           ELSE IF 100 * ratio_num < 67 * ratio_den
             THEN Min2(max_difficulty, current_difficulty + 1)
           ELSE current_difficulty

\* GET /mining_info: what the node tells miners about the next block.
mining_info(chain, mempool) ==
  [difficulty |-> calculate_difficulty(chain),
   block_reward |-> get_current_block_reward(chain),
   min_tx_fee |-> MIN_TX_FEE,
   current_block_height |-> Len(chain),
   pending_transactions |-> Len(mempool.priority_queue)]

\* ------------------------------------------------------------ state
VARIABLES
  blockchain,        \* the in-memory chain (app.core.blockchain.blockchain)
  lmdb_blocks,       \* the persisted blocks table, key -> block
  pending_txs,       \* the legacy pending list
  advanced_mempool,  \* the fee-priority mempool
  validation,        \* the POUV validation records, txid -> record
  checkpoints,       \* chain_protection.checkpoints, height -> hash
  reorg_attempts,    \* chain_protection.reorg_attempts
  health,            \* node_sync.health: peer_health and failed_peers
  sync_failures,     \* node_sync.sync_failures
  broadcast_tasks,   \* blocks whose broadcast task is scheduled, not yet run
  last_response,     \* what the last handler returned
  now                \* the reading of time.time()

vars ==
  <<blockchain, lmdb_blocks, pending_txs, advanced_mempool, validation,
    checkpoints, reorg_attempts, health, sync_failures, broadcast_tasks,
    last_response, now>>

\* The peers the node is configured with.
peers == {"http://peer-a"}

\* Mempool parameters main.py constructs the mempool with.
mempool_max_size == 10000

GenesisRecord == [status |-> "valid", reason |-> "genesis"]

StartState(chain) ==
  /\ blockchain = chain
  /\ lmdb_blocks = LmdbSave(chain)
  /\ pending_txs = <<>>
  /\ advanced_mempool = EmptyMempool
  /\ validation = PutKey(EmptyMap, GenesisTxid, GenesisRecord)
  /\ checkpoints = EmptyMap
  /\ reorg_attempts = <<>>
  /\ health = [peer_health |-> EmptyMap, failed_peers |-> {}]
  /\ sync_failures = 0
  /\ broadcast_tasks = <<>>
  /\ last_response = [op |-> "startup", status |-> "ok"]
  /\ now = T0

\* startup_load on an empty store: the genesis block is created and saved.
Init == StartState(<<create_genesis_block>>)

\* ------------------------------------------------------------ inputs
\* The transactions a submitted block at the next height is assembled from.
RewardNow == get_current_block_reward(blockchain)

NextIndex == blockchain[Len(blockchain)].index + 1

CoinbaseTx(recipient, amount, txid) ==
  [sender |-> "coinbase", recipient |-> recipient, amount |-> amount,
   fee |-> 0, timestamp |-> T0, txid |-> txid, signature |-> "genesis"]

PoolTx(recipient, amount, txid) ==
  [sender |-> "miners_pool", recipient |-> recipient, amount |-> amount,
   fee |-> 0, timestamp |-> T0, txid |-> txid, signature |-> "genesis"]

UserTx(sender, recipient, amount, fee, txid, signature) ==
  [sender |-> sender, recipient |-> recipient, amount |-> amount,
   fee |-> fee, timestamp |-> T0, txid |-> txid, signature |-> signature]

\* Six tenths of the owner's genesis allocation.
BigSpend == 6 * (TOTAL_SUPPLY \div 100)

OwnerSpend(n) ==
  UserTx(OwnerKey, UserAddr, BigSpend, MIN_TX_FEE, <<"u", n>>, "signed")

TxPool(index, reward) ==
  << CoinbaseTx(MinerAddr, reward, <<"cb", index>>),
     OwnerSpend(1),
     OwnerSpend(2),
     PoolTx(MinerAddr, MIN_TX_FEE, <<"p1", index>>),
     PoolTx(MinerAddr, 2 * MIN_TX_FEE, <<"p2", index>>),
     PoolTx(IntruderAddr, BigSpend, <<"px", index>>) >>

\* The elements of pool at the positions in S, in the order of the pool.
RECURSIVE PickSeq(_, _, _)
PickSeq(pool, S, i) ==
  IF i > Len(pool) THEN <<>>
  ELSE IF i \in S THEN <<pool[i]>> \o PickSeq(pool, S, i + 1)
  ELSE PickSeq(pool, S, i + 1)

TxLists(pool) ==
  {PickSeq(pool, S, 1) : S \in {X \in SUBSET (1..Len(pool)) : Cardinality(X) <= MaxBlockTxs}}

\* Blocks a miner may submit on top of the chain: a well-formed header over
\* every transaction list, and over a plain block the four header faults, a
\* coinbase of the wrong amount, a coinbase carrying the genesis txid and
\* the same spend twice.
HonestBlock(chain, nonce) ==
  LET last == chain[Len(chain)]
  IN  SealBlock(last.index + 1, T0,
                <<CoinbaseTx(MinerAddr, get_current_block_reward(chain),
                             <<"cb", last.index + 1>>)>>,
                last.hash, nonce)

FaultyBlocks(chain) ==
  LET last == chain[Len(chain)]
      index == last.index + 1
      reward == get_current_block_reward(chain)
      good == HonestBlock(chain, 1)
      cb == good.transactions[1]
  IN  { SealBlock(last.index, T0, good.transactions, last.hash, 1),
        SealBlock(index, T0, good.transactions, ZERO_HASH, 1),
        HonestBlock(chain, 0),
        [HonestBlock(chain, 0) EXCEPT !.hash = good.hash],
        SealBlock(index, T0, <<CoinbaseTx(MinerAddr, reward + 1, <<"cb", index>>)>>,
                  last.hash, 1),
        SealBlock(index, T0, <<CoinbaseTx(MinerAddr, reward, GenesisTxid)>>,
                  last.hash, 1),
        SealBlock(index, T0,
                  <<cb, OwnerSpend(1), OwnerSpend(1),
                    PoolTx(MinerAddr, 2 * MIN_TX_FEE, <<"p2", index>>)>>,
                  last.hash, 1) }

BlockCandidates ==
  LET last == blockchain[Len(blockchain)]
  IN  {SealBlock(NextIndex, T0, txs, last.hash, 1) :
         txs \in TxLists(TxPool(NextIndex, RewardNow))}
      \cup FaultyBlocks(blockchain)

LeanBlockCandidates ==
  {HonestBlock(blockchain, 1), HonestBlock(blockchain, 0)}

\* Chains a peer may answer /get_blockchain with.  A peer is any remote
\* process: its blocks need not satisfy any rule of validate_block.
ForeignGenesis ==
  SealBlock(0, T0,
            <<CoinbaseTx(IntruderAddr, TOTAL_SUPPLY \div 10, <<"genesis", 1>>)>>,
            ZERO_HASH, 0)

\* One more block on a peer's chain: mined and well formed over four
\* transaction lists (plain; no coinbase; a coinbase of the wrong amount
\* reusing the genesis txid; an unfunded spend with no fee payout), or a
\* plain block with a repeated index, or a plain block that was not mined.
PeerNextBlocks(chain) ==
  LET last == chain[Len(chain)]
      index == last.index + 1
      reward == get_current_block_reward(chain)
      cb == CoinbaseTx(MinerAddr, reward, <<"cb", index>>)
      lists == { <<cb>>,
                 <<>>,
                 <<CoinbaseTx(MinerAddr, reward + 1, GenesisTxid)>>,
                 <<cb, UserTx(MinerKey, IntruderAddr, BigSpend, MIN_TX_FEE,
                              <<"u", 3>>, "forged")>> }
  IN  {SealBlock(index, T0, txs, last.hash, 1) : txs \in lists}
      \cup {SealBlock(last.index, T0, <<cb>>, last.hash, 1),
            SealBlock(index, T0, <<cb>>, last.hash, 0)}

\* A peer's chain continued by n well-formed blocks.
RECURSIVE AltExtend(_, _)
AltExtend(chain, n) ==
  IF n = 0 THEN chain ELSE AltExtend(Append(chain, HonestBlock(chain, 2)), n - 1)

\* A chain whose last block carries a hash that is not its digest, and one
\* whose last block does not link to its predecessor.
CorruptChains(chain) ==
  LET good == HonestBlock(chain, 1)
      last == chain[Len(chain)]
  IN  { Append(chain, [good EXCEPT !.hash = HonestBlock(chain, 2).hash]),
        Append(chain, SealBlock(good.index, T0, good.transactions, ZERO_HASH, 1)) }

\* A peer answers with a prefix of the local chain or with a chain of its
\* own genesis, continued by at most one of its next blocks and then by
\* well-formed blocks, or with a corrupt chain.
PeerChains ==
  LET starts == {SubSeq(blockchain, 1, k) : k \in 1..Len(blockchain)}
                  \cup {<<ForeignGenesis>>}
      Room(c) == MaxChain - Len(c)
  IN  starts
      \cup UNION {{AltExtend(Append(c, b), n) : b \in PeerNextBlocks(c), n \in 0..(Room(c) - 1)} :
                  c \in {x \in starts : Room(x) >= 1}}
      \cup CorruptChains(blockchain)

\* Numbers of tip blocks a peer's fork replaces.
ForkDepths == {0, 1, max_reorg_depth, max_reorg_depth + 1}

\* A peer of a long-running node answers with the local chain, with a fork
\* that replaces the last d local blocks by d + 1 blocks of its own, or with
\* a corrupt chain.
LeanPeerChains ==
  {blockchain}
  \cup {AltExtend(SubSeq(blockchain, 1, Len(blockchain) - d), d + 1) :
          d \in {x \in ForkDepths : x < Len(blockchain)}}
  \cup CorruptChains(blockchain)

\* What the HTTP exchange with a peer yields.
PeerResponses(chains) ==
  {[kind |-> "http_error", blockchain |-> <<>>],
   [kind |-> "exception", blockchain |-> <<>>],
   [kind |-> "ok", blockchain |-> <<>>]}
  \cup {[kind |-> "ok", blockchain |-> c] : c \in chains}

\* ------------------------------------------------------------ handlers
\* Readings of time.time() a handler may see.
Clock == {now}

\* list(set): every order of the elements of S.
Orderings(S) ==
  {s \in [1..Cardinality(S) -> S] : \A i, j \in DOMAIN s : i # j => s[i] # s[j]}

MinedTxids(block) ==
  {block.transactions[j].txid : j \in
     {k \in 1..Len(block.transactions) :
        block.transactions[k].sender \notin SystemSenders}}

\* POST /submit_block with `block`; `saved` tells whether the write
\* transaction of LMDBStorage.save_blockchain committed (it returns False
\* otherwise, a result save_blockchain and the handler do not look at).
SubmitBlockStore(block, current_time, saved) ==
  LET v == validate_block(block, blockchain, pending_txs, validation, current_time)
      chain1 == Append(blockchain, block)
      cps1 == auto_checkpoint_new_block(checkpoints, chain1)
      mined_txids == MinedTxids(block)
      Unmined(t) == t.txid \notin mined_txids
  IN
  /\ validation' = v.validation
  /\ IF ~v.ok
       THEN /\ last_response' = [op |-> "submit_block", status |-> "error"]
            /\ UNCHANGED <<blockchain, lmdb_blocks, pending_txs, advanced_mempool,
                           checkpoints, broadcast_tasks>>
       ELSE /\ blockchain' = chain1
            /\ lmdb_blocks' = IF saved THEN LmdbSave(chain1) ELSE lmdb_blocks
            /\ checkpoints' = cps1
            /\ IF ~validate_chain_against_checkpoints(cps1, chain1)
                 THEN /\ last_response' =
                           [op |-> "submit_block", status |-> "checkpoint violation"]
                      /\ UNCHANGED <<pending_txs, advanced_mempool, broadcast_tasks>>
                 ELSE /\ pending_txs' = SelectSeq(pending_txs, Unmined)
                      /\ \E order \in Orderings(mined_txids) :
                           advanced_mempool' =
                             remove_transactions(advanced_mempool, order)
                      /\ broadcast_tasks' = Append(broadcast_tasks, block)
                      /\ last_response' =
                           [op |-> "submit_block", status |-> "accepted"]
  /\ UNCHANGED <<reorg_attempts, health, sync_failures, now>>

\* submit_block with a suspension between validation and append: the block
\* is validated against the chain as it stood one block earlier and then
\* appended to the chain as it stands.
SubmitBlockRacing(block, current_time) ==
  LET seen == IF Len(blockchain) > 1
                THEN SubSeq(blockchain, 1, Len(blockchain) - 1) ELSE blockchain
      v == validate_block(block, seen, pending_txs, validation, current_time)
      chain1 == Append(blockchain, block)
  IN
  /\ validation' = v.validation
  /\ IF ~v.ok
       THEN /\ last_response' = [op |-> "submit_block", status |-> "error"]
            /\ UNCHANGED <<blockchain, lmdb_blocks, broadcast_tasks>>
       ELSE /\ blockchain' = chain1
            /\ lmdb_blocks' = LmdbSave(chain1)
            /\ broadcast_tasks' = Append(broadcast_tasks, block)
            /\ last_response' = [op |-> "submit_block", status |-> "accepted"]
  /\ UNCHANGED <<pending_txs, advanced_mempool, checkpoints, reorg_attempts,
                 health, sync_failures, now>>

\* POST /submit_block with `block`, the store working.
SubmitBlock(block, current_time) == SubmitBlockStore(block, current_time, TRUE)

http_submit_block ==
  /\ Len(blockchain) < MaxChain
  /\ \E block \in BlockCandidates, current_time \in Clock :
       SubmitBlock(block, current_time)

\* sync_with_peer adopting any verified chain that is not shorter.
SyncWithPeerNotShorter(peer_url, res) ==
  LET their_chain == res.blockchain
      adopt == /\ res.kind = "ok"
               /\ their_chain # <<>>
               /\ Len(their_chain) >= Len(blockchain)
               /\ verify_blockchain(their_chain)
      healthy == /\ res.kind = "ok"
                 /\ their_chain # <<>>
                 /\ Len(their_chain) < Len(blockchain)
  IN
  /\ IF adopt
       THEN /\ blockchain' = their_chain
            /\ lmdb_blocks' = LmdbSave(their_chain)
            /\ health' = mark_success(health, peer_url)
            /\ sync_failures' = 0
            /\ last_response' = [op |-> "sync_with_peer", status |-> "adopted"]
       ELSE /\ health' = IF healthy THEN mark_success(health, peer_url)
                                    ELSE mark_failure(health, peer_url)
            /\ last_response' = [op |-> "sync_with_peer", status |-> "kept"]
            /\ UNCHANGED <<blockchain, lmdb_blocks, sync_failures>>
  /\ UNCHANGED <<pending_txs, advanced_mempool, validation, checkpoints,
                 reorg_attempts, broadcast_tasks, now>>

\* RobustNodeSync.sync_with_peer(peer_url), the exchange yielding `res`;
\* `saved` tells whether the write transaction of save_blockchain committed.
SyncWithPeerStore(peer_url, res, saved) ==
  LET their_chain == res.blockchain
      adopt == /\ res.kind = "ok"
               /\ their_chain # <<>>
               /\ Len(their_chain) > Len(blockchain)
               /\ verify_blockchain(their_chain)
      healthy == /\ res.kind = "ok"
                 /\ their_chain # <<>>
                 /\ Len(their_chain) <= Len(blockchain)
  IN
  /\ IF adopt
       THEN /\ blockchain' = their_chain
            /\ lmdb_blocks' = IF saved THEN LmdbSave(their_chain) ELSE lmdb_blocks
            /\ health' = mark_success(health, peer_url)
            /\ sync_failures' = 0
            /\ last_response' = [op |-> "sync_with_peer", status |-> "adopted"]
       ELSE /\ health' = IF healthy THEN mark_success(health, peer_url)
                                    ELSE mark_failure(health, peer_url)
            /\ last_response' = [op |-> "sync_with_peer", status |-> "kept"]
            /\ UNCHANGED <<blockchain, lmdb_blocks, sync_failures>>
  /\ UNCHANGED <<pending_txs, advanced_mempool, validation, checkpoints,
                 reorg_attempts, broadcast_tasks, now>>

\* RobustNodeSync.sync_with_peer(peer_url), the store working.
SyncWithPeer(peer_url, res) == SyncWithPeerStore(peer_url, res, TRUE)

\* POST /peers with a peer the node already lists: add_peer awaits
\* sync_with_peer(p).
sync_with_peer ==
  \E peer_url \in peers, res \in PeerResponses(PeerChains) :
    /\ SyncWithPeer(peer_url, res)
    /\ FailuresOf(health', peer_url) <= MaxFailures

\* The health state after broadcast_block has posted to every peer of
\* `todo`, outcome[p] telling whether p answered 200.
RECURSIVE BroadcastHealth(_, _, _)
BroadcastHealth(h, todo, outcome) ==
  IF todo = {} THEN h
  ELSE LET p == CHOOSE x \in todo : TRUE
       IN  BroadcastHealth(IF outcome[p] THEN mark_success(h, p)
                                         ELSE mark_failure(h, p),
                           todo \ {p}, outcome)

\* The broadcast task of the oldest accepted block runs over all_peers.
BroadcastBlock(all_peers) ==
  /\ broadcast_tasks # <<>>
  /\ LET healthy_peers == get_healthy_peers(health, all_peers)
     IN  \E outcome \in [healthy_peers -> BOOLEAN] :
           health' = BroadcastHealth(health, healthy_peers, outcome)
  /\ broadcast_tasks' = Tail(broadcast_tasks)
  /\ last_response' = [op |-> "broadcast_block", status |-> "done"]
  /\ UNCHANGED <<blockchain, lmdb_blocks, pending_txs, advanced_mempool,
                 validation, checkpoints, reorg_attempts, sync_failures, now>>

broadcast_block ==
  /\ BroadcastBlock(peers)
  /\ \A p \in peers : FailuresOf(health', p) <= MaxFailures

Next ==
  \/ http_submit_block
  \/ sync_with_peer
  \/ broadcast_block

Spec == Init /\ [][Next]_vars

\* ------------------------------------------------------------ a long-running node
\* startup_load on a store that holds LongStart blocks this node accepted in
\* an earlier run.  Checkpoints are kept in memory only and start empty.
\* The stored chain is the genesis block followed by blocks of one coinbase
\* each, block h linking to the digest of block h - 1.
LoadedHash(h) ==
  [k \in 1..(h + 1) |->
     LET i == h + 1 - k
     IN  IF i = 0
           THEN <<0, T0, <<GenesisTx>>, 0>>
           ELSE <<i, T0,
                  <<CoinbaseTx(MinerAddr, STARTING_BLOCK_REWARD, <<"cb", i>>)>>, 1>>]

LoadedChain ==
  [p \in 1..LongStart |->
     IF p = 1 THEN create_genesis_block
     ELSE SealBlock(p - 1, T0,
                    <<CoinbaseTx(MinerAddr, STARTING_BLOCK_REWARD, <<"cb", p - 1>>)>>,
                    LoadedHash(p - 2), 1)]

LongInit == StartState(LoadedChain)

http_submit_block_long ==
  /\ Len(blockchain) < LongStart + LongGrow
  /\ \E block \in LeanBlockCandidates, current_time \in Clock :
       SubmitBlock(block, current_time)

sync_with_peer_long ==
  \E peer_url \in peers,
     res \in PeerResponses({c \in LeanPeerChains : Len(c) <= LongStart + LongGrow}) :
    /\ SyncWithPeer(peer_url, res)
    /\ FailuresOf(health', peer_url) <= MaxFailures

NextLong ==
  \/ http_submit_block_long
  \/ sync_with_peer_long
  \/ broadcast_block

SpecLong == LongInit /\ [][NextLong]_vars

\* ------------------------------------------------- checkpoints over time
\* The long-running node with a peer whose chain ends in a block that
\* repeats the index of its predecessor's predecessor.
CkptGrow == 3

\* A chain continued by a mined, linked block whose index field is one less
\* than the index of the block it follows.
RegressChain(chain) ==
  LET last == chain[Len(chain)]
  IN  Append(chain,
             SealBlock(last.index - 1, T0,
                       <<CoinbaseTx(MinerAddr, get_current_block_reward(chain),
                                    <<"cb", last.index - 1>>)>>,
                       last.hash, 2))

CkptPeerChains ==
  {blockchain, AltExtend(blockchain, 1), RegressChain(blockchain),
   AltExtend(SubSeq(blockchain, 1, Len(blockchain) - 1), 2)}

http_submit_block_ckpt ==
  /\ Len(blockchain) < LongStart + CkptGrow
  /\ \E block \in LeanBlockCandidates, current_time \in Clock :
       SubmitBlock(block, current_time)

sync_with_peer_ckpt ==
  \E peer_url \in peers,
     res \in PeerResponses({c \in CkptPeerChains : Len(c) <= LongStart + CkptGrow}) :
    /\ SyncWithPeer(peer_url, res)
    /\ FailuresOf(health', peer_url) <= MaxFailures

NextCkpt ==
  \/ http_submit_block_ckpt
  \/ sync_with_peer_ckpt
  \/ broadcast_block

SpecCkpt == LongInit /\ [][NextCkpt]_vars

\* ------------------------------------------------- concurrent writers
\* Requests to submit_block and runs of sync_with_peer interleaved on the
\* event loop.  http_submit_block suspends only at `await request.json()`,
\* before it reads the chain, and sync_with_peer does its exchange with the
\* blocking requests.post: from validate_block to append, and from the
\* length test to extend, each handler is one step.  What the suspension
\* allows is a request whose block was mined on a tip the chain has moved
\* past, by two miners or by one.
RaceMaxChain == 3

RaceBlockCandidates ==
  {HonestBlock(SubSeq(blockchain, 1, k), nonce) :
     k \in 1..Len(blockchain), nonce \in {1, 3}}

RacePeerChains ==
  {c \in LeanPeerChains : Len(c) <= RaceMaxChain}

http_submit_block_race ==
  /\ Len(blockchain) < RaceMaxChain
  /\ \E block \in RaceBlockCandidates, current_time \in Clock :
       SubmitBlock(block, current_time)

sync_with_peer_race ==
  \E peer_url \in peers, res \in PeerResponses(RacePeerChains) :
    /\ SyncWithPeer(peer_url, res)
    /\ FailuresOf(health', peer_url) <= MaxFailures

NextRace ==
  \/ http_submit_block_race
  \/ sync_with_peer_race
  \/ broadcast_block

SpecRace == Init /\ [][NextRace]_vars

\* ------------------------------------------------------------ transaction submission
\* The age limit main.py constructs the mempool with.
mempool_max_tx_age == 3600

\* POST /send_tx with `tx`: everything after the request body is read runs
\* under mempool_lock without awaiting.
SendTx(tx, current_time) ==
  LET sender == tx.sender
      balance_address == IF StrLen(sender) = PUBLIC_KEY_LENGTH
                           THEN public_key_to_address(sender) ELSE sender
      sender_balance == get_balance(balance_address, blockchain, pending_txs)
      total_needed == tx.amount + tx.fee
      v == validate_transaction_pouv(tx, blockchain, pending_txs, validation,
                                     current_time)
      a == add_transaction(advanced_mempool, tx, current_time,
                           mempool_max_size, mempool_max_tx_age)
      Error == last_response' = [op |-> "send_tx", status |-> "error"]
  IN
  /\ IF sender_balance < total_needed
       THEN /\ Error
            /\ UNCHANGED <<validation, advanced_mempool, pending_txs>>
       ELSE /\ validation' = v.validation
            /\ IF ~v.ok
                 THEN Error /\ UNCHANGED <<advanced_mempool, pending_txs>>
                 ELSE IF ~a.ok
                   THEN Error /\ UNCHANGED <<advanced_mempool, pending_txs>>
                   ELSE /\ advanced_mempool' = a.mempool
                        /\ pending_txs' =
                             IF \E i \in 1..Len(pending_txs) :
                                  pending_txs[i].txid = tx.txid
                               THEN pending_txs
                               ELSE Append(pending_txs, tx)
                        /\ last_response' = [op |-> "send_tx", status |-> "success"]
  /\ UNCHANGED <<blockchain, lmdb_blocks, checkpoints, reorg_attempts, health,
                 sync_failures, broadcast_tasks, now>>

\* A third of the owner's genesis allocation.
SmallSpend == 3 * (TOTAL_SUPPLY \div 100)

\* Transactions clients submit: the two large spends of the owner, a small
\* spend, and the first large spend with a signature that does not verify.
TxCandidates ==
  { OwnerSpend(1), OwnerSpend(2),
    UserTx(OwnerKey, UserAddr, SmallSpend, MIN_TX_FEE, <<"u", 3>>, "signed"),
    [OwnerSpend(1) EXCEPT !.signature = "forged"] }

http_send_tx ==
  \E tx \in TxCandidates, current_time \in Clock : SendTx(tx, current_time)

\* Blocks miners submit while clients submit transactions: a coinbase alone,
\* or a coinbase, one submitted transaction and the fee payout, or the same
\* without the payout.
TxBlockCandidates ==
  LET last == blockchain[Len(blockchain)]
      cb == CoinbaseTx(MinerAddr, RewardNow, <<"cb", NextIndex>>)
      p1 == PoolTx(MinerAddr, MIN_TX_FEE, <<"p1", NextIndex>>)
  IN  {HonestBlock(blockchain, 1)}
      \cup {SealBlock(NextIndex, T0, <<cb, tx, p1>>, last.hash, 1) : tx \in TxCandidates}
      \cup {SealBlock(NextIndex, T0, <<cb, tx>>, last.hash, 1) : tx \in TxCandidates}

http_submit_block_tx ==
  /\ Len(blockchain) < TxMaxChain
  /\ \E block \in TxBlockCandidates, current_time \in Clock :
       SubmitBlock(block, current_time)

\* A peer answers with an error, with the local chain, or with the local
\* chain and one more block that holds a transaction of a client.
TxPeerChains ==
  LET last == blockchain[Len(blockchain)]
      cb == CoinbaseTx(MinerAddr, RewardNow, <<"cb", NextIndex>>)
      p1 == PoolTx(MinerAddr, MIN_TX_FEE, <<"p1", NextIndex>>)
  IN  {blockchain}
      \cup {Append(blockchain, SealBlock(NextIndex, T0, <<cb, tx, p1>>, last.hash, 2)) :
              tx \in TxCandidates}

sync_with_peer_tx ==
  \E peer_url \in peers,
     res \in PeerResponses({c \in TxPeerChains : Len(c) <= TxMaxChain}) :
    /\ SyncWithPeer(peer_url, res)
    /\ FailuresOf(health', peer_url) <= MaxFailures

NextTx ==
  \/ http_send_tx
  \/ http_submit_block_tx
  \/ sync_with_peer_tx
  \/ broadcast_block

SpecTx == Init /\ [][NextTx]_vars

\* ------------------------------------------------- accepted blocks
\* Two nodes side by side: a fresh node that takes transactions and the
\* blocks that hold them, and the long-running node, whose next block has
\* index LongStart, a multiple of the checkpoint interval, and which is sent
\* blocks of a coinbase alone.
AppendGrow == 2

AppendInit == Init \/ LongInit

http_send_tx_append ==
  /\ Len(blockchain) <= TxMaxChain
  /\ http_send_tx

http_submit_block_append ==
  \E current_time \in Clock :
    \/ /\ Len(blockchain) < TxMaxChain
       /\ \E block \in TxBlockCandidates : SubmitBlock(block, current_time)
    \/ /\ Len(blockchain) >= LongStart
       /\ Len(blockchain) < LongStart + AppendGrow
       /\ \E block \in LeanBlockCandidates : SubmitBlock(block, current_time)

NextAppend ==
  \/ http_send_tx_append
  \/ http_submit_block_append
  \/ broadcast_block

SpecAppend == AppendInit /\ [][NextAppend]_vars

\* ------------------------------------------------- system senders as clients
\* POST /send_tx with transactions that name 'coinbase' or 'miners_pool' as
\* their sender, unsigned, over amounts and fees around zero, next to
\* payments of the owner to the two system names.
SystemAmounts == {0 - 1, 0, 1}

SystemFees == {0 - 1, 0}

SystemTx(sender, amount, fee) ==
  UserTx(sender, IntruderAddr, amount, fee,
         <<"s", (IF sender = "coinbase" THEN 0 ELSE 10) + amount + 1>>, "")

FundingTx(recipient) ==
  UserTx(OwnerKey, recipient, SmallSpend, MIN_TX_FEE,
         <<"f", StrLen(recipient)>>, "signed")

SystemTxCandidates ==
  {SystemTx(sender, amount, fee) :
     sender \in SystemSenders, amount \in SystemAmounts, fee \in SystemFees}
  \cup {FundingTx(recipient) : recipient \in SystemSenders}

http_send_tx_system ==
  \E tx \in SystemTxCandidates, current_time \in Clock : SendTx(tx, current_time)

NextSystem == http_send_tx_system

SpecSystem == Init /\ [][NextSystem]_vars

\* ------------------------------------------------- the mempool on its own
\* An AdvancedMempool of small capacity driven through its public methods,
\* as the unit tests drive it.
MempoolCap == 3

MaxCount == 1000

ClockStep == 1800

ClockEnd == 5400

MempoolTx(n, fee, timestamp) ==
  [UserTx(OwnerKey, UserAddr, 1, fee, <<"m", n>>, "signed")
     EXCEPT !.timestamp = timestamp]

MempoolTxs ==
  { MempoolTx(1, MIN_TX_FEE, T0 + 1),
    MempoolTx(2, MIN_TX_FEE, T0 + 3),
    MempoolTx(3, MIN_TX_FEE, T0 + 2),
    MempoolTx(4, 2 * MIN_TX_FEE, T0),
    MempoolTx(5, 3 * MIN_TX_FEE, T0 + ClockStep + 1) }

MempoolTxids == {tx.txid : tx \in MempoolTxs}

MempoolFrame ==
  UNCHANGED <<blockchain, lmdb_blocks, pending_txs, validation, checkpoints,
              reorg_attempts, health, sync_failures, broadcast_tasks>>

mempool_add_transaction ==
  \E tx \in MempoolTxs :
    LET a == add_transaction(advanced_mempool, tx, now, MempoolCap,
                             mempool_max_tx_age)
    IN  /\ advanced_mempool' = a.mempool
        /\ last_response' = [op |-> "add_transaction", status |-> a.reason,
                             txid |-> tx.txid]
        /\ UNCHANGED now
        /\ MempoolFrame

mempool_remove_transaction ==
  \E txid \in MempoolTxids :
    /\ advanced_mempool' = remove_transaction(advanced_mempool, txid)
    /\ last_response' = [op |-> "remove_transaction",
                         status |-> IF txid \in DOMAIN advanced_mempool.tx_index
                                      THEN "removed" ELSE "not found",
                         txid |-> txid]
    /\ UNCHANGED now
    /\ MempoolFrame

mempool_remove_transactions ==
  \E t1 \in MempoolTxids, t2 \in MempoolTxids :
    /\ t1 # t2
    /\ advanced_mempool' = remove_transactions(advanced_mempool, <<t1, t2>>)
    /\ last_response' = [op |-> "remove_transactions", status |-> "done"]
    /\ UNCHANGED now
    /\ MempoolFrame

mempool_get_transactions_for_mining ==
  LET g == get_transactions_for_mining(advanced_mempool, now,
                                       mempool_max_tx_age, MaxCount)
  IN  /\ advanced_mempool' = g.mempool
      /\ last_response' = [op |-> "get_transactions_for_mining",
                           status |-> "done"]
      /\ UNCHANGED now
      /\ MempoolFrame

mempool_clear ==
  /\ advanced_mempool' = clear(advanced_mempool)
  /\ last_response' = [op |-> "clear", status |-> "done"]
  /\ UNCHANGED now
  /\ MempoolFrame

\* time.time() moves on between two calls.
Tick ==
  /\ now + ClockStep <= T0 + ClockEnd
  /\ now' = now + ClockStep
  /\ UNCHANGED advanced_mempool
  /\ UNCHANGED last_response
  /\ MempoolFrame

NextMempool ==
  \/ mempool_add_transaction
  \/ mempool_remove_transaction
  \/ mempool_remove_transactions
  \/ mempool_get_transactions_for_mining
  \/ mempool_clear
  \/ Tick

SpecMempool == Init /\ [][NextMempool]_vars

\* ------------------------------------------------- the two pending views
\* Clients submit transactions and miners ask for the pending ones
\* (POST /get_pending calls get_transactions_for_mining) while time passes.
NextPending ==
  \/ http_send_tx
  \/ mempool_get_transactions_for_mining
  \/ Tick

SpecPending == Init /\ [][NextPending]_vars

\* ------------------------------------------------- a node with two peers
\* Peer health over long runs of failures: the node lists two peers, syncs
\* with them directly (add_peer, on_startup) and through periodic_sync, and
\* gossips the blocks it accepts.
HealthPeers == {"http://peer-a", "http://peer-b"}

MaxPeerFailures == 4

MaxSyncFailures == 2

HealthMaxChain == 2

\* A peer answers with the local chain, a shorter prefix of it, a fork of
\* the same length, a longer well-formed chain, or a corrupt longer chain.
HealthPeerChains ==
  LET n == Len(blockchain)
      forks == IF n > 1 THEN {SubSeq(blockchain, 1, n - 1),
                              AltExtend(SubSeq(blockchain, 1, n - 1), 1)}
                        ELSE {}
      longer == IF n < HealthMaxChain THEN {AltExtend(blockchain, 1)} ELSE {}
  IN  {blockchain} \cup forks \cup longer \cup CorruptChains(blockchain)

HealthCapped ==
  /\ \A p \in HealthPeers : FailuresOf(health', p) <= MaxPeerFailures
  /\ sync_failures' <= MaxSyncFailures

\* add_peer and on_startup await sync_with_peer(p) for a listed peer p,
\* whatever its health.
health_sync_with_peer ==
  \E peer_url \in HealthPeers, res \in PeerResponses(HealthPeerChains) :
    /\ SyncWithPeer(peer_url, res)
    /\ HealthCapped

\* Whether sync_with_peer adopts the chain of the response.
SyncAdopts(res) ==
  /\ res.kind = "ok"
  /\ res.blockchain # <<>>
  /\ Len(res.blockchain) > Len(blockchain)
  /\ verify_blockchain(res.blockchain)

\* The loop of sync_with_best_peer over the healthy peers in the order
\* `order`, res[p] the exchange with p: it stops at the first adoption.
RECURSIVE SyncEach(_, _, _)
SyncEach(order, res, h) ==
  IF order = <<>>
    THEN [health |-> h, adopted |-> FALSE, chain |-> blockchain, synced |-> {}]
  ELSE LET p == Head(order)
           r == res[p]
           kept == r.kind = "ok" /\ r.blockchain # <<>>
                     /\ Len(r.blockchain) <= Len(blockchain)
       IN  IF SyncAdopts(r)
             THEN [health |-> mark_success(h, p), adopted |-> TRUE,
                   chain |-> r.blockchain, synced |-> {p}]
             ELSE LET rest == SyncEach(Tail(order), res,
                                       IF kept THEN mark_success(h, p)
                                               ELSE mark_failure(h, p))
                  IN  [rest EXCEPT !.synced = @ \cup {p}]

\* The answers to the pings of try_recover_peers, none when it does not run.
Pongs(failed, runs) ==
  IF runs THEN [failed -> BOOLEAN] ELSE {[p \in failed |-> FALSE]}

\* One round of periodic_sync: sync_with_best_peer, then try_recover_peers
\* when the clock reads a multiple of 300 seconds.
PeriodicSync(pong, order, res, recover) ==
  LET healthy0 == get_healthy_peers(health, HealthPeers)
      h1 == IF healthy0 = {} THEN try_recover_peers(health, pong) ELSE health
      healthy_peers == get_healthy_peers(h1, HealthPeers)
      r == SyncEach(order, res, h1)
      h2 == IF healthy_peers = {} THEN h1 ELSE r.health
  IN  /\ DOMAIN res = healthy_peers
      /\ order \in Orderings(healthy_peers)
      /\ \E pong_after \in Pongs(h2.failed_peers, recover) :
           health' = try_recover_peers(h2, pong_after)
      /\ IF healthy_peers = {}
           THEN /\ sync_failures' = sync_failures + 1
                /\ last_response' = [op |-> "periodic_sync", status |-> "all down",
                                     synced |-> {}]
                /\ UNCHANGED <<blockchain, lmdb_blocks>>
           ELSE IF r.adopted
             THEN /\ blockchain' = r.chain
                  /\ lmdb_blocks' = LmdbSave(r.chain)
                  /\ sync_failures' = 0
                  /\ last_response' = [op |-> "periodic_sync", status |-> "adopted",
                                       synced |-> r.synced]
             ELSE /\ last_response' = [op |-> "periodic_sync", status |-> "kept",
                                       synced |-> r.synced]
                  /\ UNCHANGED <<blockchain, lmdb_blocks, sync_failures>>
      /\ UNCHANGED <<pending_txs, advanced_mempool, validation, checkpoints,
                     reorg_attempts, broadcast_tasks, now>>

\* The exchanges of one round: a refusal, the local chain, a longer
\* well-formed chain, or a corrupt longer chain.
PeriodicResponses ==
  {r \in PeerResponses(HealthPeerChains) :
     \/ r.kind = "http_error"
     \/ /\ r.kind = "ok"
        /\ r.blockchain = blockchain \/ Len(r.blockchain) > Len(blockchain)}

periodic_sync ==
  \E recover \in BOOLEAN,
     pong \in Pongs(health.failed_peers,
                    get_healthy_peers(health, HealthPeers) = {}) :
    LET h1 == try_recover_peers(health, pong)
        healthy == get_healthy_peers(h1, HealthPeers)
    IN  \E order \in Orderings(healthy),
           res \in [healthy -> PeriodicResponses] :
          /\ PeriodicSync(pong, order, res, recover)
          /\ HealthCapped

http_submit_block_health ==
  /\ Len(blockchain) < HealthMaxChain
  /\ \E block \in LeanBlockCandidates, current_time \in Clock :
       SubmitBlock(block, current_time)

broadcast_block_health ==
  /\ BroadcastBlock(HealthPeers)
  /\ HealthCapped

NextHealth ==
  \/ health_sync_with_peer
  \/ periodic_sync
  \/ http_submit_block_health
  \/ broadcast_block_health

SpecHealth == Init /\ [][NextHealth]_vars

\* ------------------------------------------------- the periodic task alone
\* periodic_sync running round after round against the two peers.  The
\* response of a round carries `idle`, the number of rounds in a row, this
\* one included, in which sync_with_best_peer adopted nothing.
max_sync_failures == 5

PartMaxCycles == 6

IdleCycles ==
  IF last_response.op = "periodic_sync" THEN last_response.idle ELSE 0

PartitionCycle(pong, order, res, recover) ==
  LET healthy0 == get_healthy_peers(health, HealthPeers)
      h1 == IF healthy0 = {} THEN try_recover_peers(health, pong) ELSE health
      healthy_peers == get_healthy_peers(h1, HealthPeers)
      r == SyncEach(order, res, h1)
      h2 == IF healthy_peers = {} THEN h1 ELSE r.health
      adopted == healthy_peers # {} /\ r.adopted
  IN  /\ DOMAIN res = healthy_peers
      /\ order \in Orderings(healthy_peers)
      /\ \E pong_after \in Pongs(h2.failed_peers, recover) :
           health' = try_recover_peers(h2, pong_after)
      /\ blockchain' = IF adopted THEN r.chain ELSE blockchain
      /\ lmdb_blocks' = IF adopted THEN LmdbSave(r.chain) ELSE lmdb_blocks
      /\ sync_failures' = IF healthy_peers = {} THEN sync_failures + 1
                          ELSE IF adopted THEN 0 ELSE sync_failures
      /\ last_response' =
           [op |-> "periodic_sync",
            status |-> IF healthy_peers = {} THEN "all down"
                       ELSE IF adopted THEN "adopted" ELSE "kept",
            synced |-> IF healthy_peers = {} THEN {} ELSE r.synced,
            idle |-> IF adopted THEN 0 ELSE IdleCycles + 1,
            partition_warning |-> sync_failures' >= max_sync_failures]
      /\ UNCHANGED <<pending_txs, advanced_mempool, validation, checkpoints,
                     reorg_attempts, broadcast_tasks, now>>

periodic_sync_cycle ==
  /\ IdleCycles < PartMaxCycles
  /\ \E recover \in BOOLEAN,
        pong \in Pongs(health.failed_peers,
                       get_healthy_peers(health, HealthPeers) = {}) :
       LET h1 == try_recover_peers(health, pong)
           healthy == get_healthy_peers(h1, HealthPeers)
       IN  \E order \in Orderings(healthy),
              res \in [healthy -> PeriodicResponses] :
             PartitionCycle(pong, order, res, recover)

NextPartition == periodic_sync_cycle

SpecPartition == Init /\ [][NextPartition]_vars

\* ------------------------------------------------- recovery of failed peers
\* The periodic task with its clock.  `now` is the reading of time.time() at
\* the top of the loop, kept modulo the recovery period, which is all the
\* task looks at; a round takes a whole number of seconds up to
\* MaxRoundSeconds and is followed by the sleep of interval_sec.  A peer may
\* refuse the exchange of sync_with_peer; every ping of try_recover_peers is
\* answered, so a peer is reachable from the moment it is marked failed.
recovery_period == 300

interval_sec == 30

initial_delay == 5

MaxRoundSeconds == 1

\* startup_load, then the initial delay of the task.
RecoveryInit ==
  /\ blockchain = <<create_genesis_block>>
  /\ lmdb_blocks = LmdbSave(blockchain)
  /\ pending_txs = <<>>
  /\ advanced_mempool = EmptyMempool
  /\ validation = PutKey(EmptyMap, GenesisTxid, GenesisRecord)
  /\ checkpoints = EmptyMap
  /\ reorg_attempts = <<>>
  /\ health = [peer_health |-> EmptyMap, failed_peers |-> {}]
  /\ sync_failures = 0
  /\ broadcast_tasks = <<>>
  /\ last_response = [op |-> "startup", status |-> "ok"]
  /\ now = (T0 + initial_delay) % recovery_period

RecoveryResponses ==
  {[kind |-> "http_error", blockchain |-> <<>>],
   [kind |-> "ok", blockchain |-> blockchain]}

AllAnswer(failed) == [p \in failed |-> TRUE]

RecoveryRound(order, res, duration) ==
  LET healthy0 == get_healthy_peers(health, HealthPeers)
      h1 == IF healthy0 = {} THEN try_recover_peers(health, AllAnswer(health.failed_peers))
                             ELSE health
      healthy_peers == get_healthy_peers(h1, HealthPeers)
      r == SyncEach(order, res, h1)
      h2 == IF healthy_peers = {} THEN h1 ELSE r.health
      recover == (now + duration) % recovery_period = 0
  IN  /\ DOMAIN res = healthy_peers
      /\ order \in Orderings(healthy_peers)
      /\ health' = IF recover
                     THEN try_recover_peers(h2, AllAnswer(h2.failed_peers))
                     ELSE h2
      /\ sync_failures' = IF healthy_peers = {} THEN sync_failures + 1
                          ELSE sync_failures
      /\ last_response' =
           [op |-> "periodic_sync",
            status |-> IF healthy_peers = {} THEN "all down" ELSE "kept",
            synced |-> IF healthy_peers = {} THEN {} ELSE r.synced]
      /\ now' = (now + duration + interval_sec) % recovery_period
      /\ UNCHANGED <<blockchain, lmdb_blocks, pending_txs, advanced_mempool,
                     validation, checkpoints, reorg_attempts, broadcast_tasks>>

periodic_sync_clocked ==
  \E duration \in 0..MaxRoundSeconds :
    LET h1 == IF get_healthy_peers(health, HealthPeers) = {}
                THEN try_recover_peers(health, AllAnswer(health.failed_peers))
                ELSE health
        healthy == get_healthy_peers(h1, HealthPeers)
    IN  \E order \in Orderings(healthy),
           res \in [healthy -> RecoveryResponses] :
          RecoveryRound(order, res, duration)

NextRecovery == periodic_sync_clocked

\* The periodic task keeps running.
SpecRecovery ==
  RecoveryInit /\ [][NextRecovery]_vars /\ WF_vars(NextRecovery)

\* ------------------------------------------------- a store that may fail
\* The node over a store whose write transaction may abort (map full, disk
\* full): save_blockchain then leaves the stored blocks as they were.
StoreMaxChain == 3

\* A peer answers with the local chain, with one more well-formed block, or
\* with a fork that replaces the last local block by two of its own.
StorePeerChains ==
  LET n == Len(blockchain)
  IN  {blockchain}
      \cup (IF n < StoreMaxChain THEN {AltExtend(blockchain, 1)} ELSE {})
      \cup (IF n > 1 /\ n < StoreMaxChain
              THEN {AltExtend(SubSeq(blockchain, 1, n - 1), 2)} ELSE {})

\* A mined block whose coinbase carries the signature `signature`.
CoinbaseSignedBlock(chain, signature) ==
  LET good == HonestBlock(chain, 1)
  IN  SealBlock(good.index, T0,
                <<[good.transactions[1] EXCEPT !.signature = signature]>>,
                good.prev_hash, 1)

StoreBlockCandidates ==
  LeanBlockCandidates \cup {CoinbaseSignedBlock(blockchain, "")}

http_submit_block_store ==
  /\ Len(blockchain) < StoreMaxChain
  /\ \E block \in StoreBlockCandidates, current_time \in Clock, saved \in BOOLEAN :
       SubmitBlockStore(block, current_time, saved)

sync_with_peer_store ==
  \E peer_url \in peers, res \in PeerResponses(StorePeerChains), saved \in BOOLEAN :
    /\ SyncWithPeerStore(peer_url, res, saved)
    /\ FailuresOf(health', peer_url) <= MaxFailures

NextStore ==
  \/ http_submit_block_store
  \/ sync_with_peer_store
  \/ broadcast_block

SpecStore == Init /\ [][NextStore]_vars

\* ------------------------------------------------- the reward schedule
\* get_current_block_reward at heights around every halving, the way the
\* halving test sets the length of the chain and reads the reward.
MaxHalvings == 24

RewardHeights ==
  {k * HALVING_INTERVAL + d :
     k \in 0..MaxHalvings,
     d \in {0, 1, 100, HALVING_INTERVAL \div 2, HALVING_INTERVAL - 1}}

reward_at_height ==
  \E height \in RewardHeights :
    /\ last_response' = [op |-> "get_current_block_reward", status |-> "ok",
                         height |-> height,
                         reward |-> RewardAtHeight(height)]
    /\ UNCHANGED <<blockchain, lmdb_blocks, pending_txs, advanced_mempool,
                   validation, checkpoints, reorg_attempts, health,
                   sync_failures, broadcast_tasks, now>>

NextReward == reward_at_height

SpecReward == Init /\ [][NextReward]_vars

\* ------------------------------------------------- difficulty adjustment
\* calculate_difficulty applied to test chains: the genesis block followed by
\* blocks a fixed number of seconds apart, the last of which carries a hash
\* with a chosen number of leading zeros.
DiffWindows == 2

DiffMaxNonce == 4

DiffGaps == {0, 10, 30, 44, 45, 60, 99, 100, 120}

DiffLengths ==
  {1, 2} \cup
  {n \in {w * adjustment_interval + d : w \in 1..DiffWindows, d \in {-1, 0, 1}} :
     n <= DiffWindows * adjustment_interval}

\* The block the test appends at position i: its hash field is a literal
\* with 3 * nonce leading zeros.
TestBlock(i, gap, nonce) ==
  [index |-> i, timestamp |-> T0 + i * gap, transactions |-> <<>>,
   prev_hash |-> <<>>, nonce |-> nonce,
   hash |-> <<<<i, T0 + i * gap, <<>>, nonce>>>>]

test_chain(length, gap, nonce) ==
  [i \in 1..length |->
     IF i = 1 THEN create_genesis_block ELSE TestBlock(i - 1, gap, nonce)]

test_difficulty_adjustment ==
  \E length \in DiffLengths, gap \in DiffGaps, nonce \in 0..DiffMaxNonce :
    /\ last_response' = [op |-> "calculate_difficulty", status |-> "ok",
                         chain |-> test_chain(length, gap, nonce),
                         difficulty |->
                           calculate_difficulty(test_chain(length, gap, nonce))]
    /\ UNCHANGED <<blockchain, lmdb_blocks, pending_txs, advanced_mempool,
                   validation, checkpoints, reorg_attempts, health,
                   sync_failures, broadcast_tasks, now>>

NextDifficulty == test_difficulty_adjustment

SpecDifficulty == Init /\ [][NextDifficulty]_vars

\* ------------------------------------------------- the timestamp window
\* validate_transaction applied, as the replay test applies it, to funded and
\* signed transactions stamped around the two ends of the window, while the
\* clock advances second by second.
WindowTicks == 1

WindowOffsets ==
  {0 - MAX_TX_AGE - 1, 0 - MAX_TX_AGE, 1 - MAX_TX_AGE, 0,
   MAX_CLOCK_SKEW, MAX_CLOCK_SKEW + 1, MAX_CLOCK_SKEW + 2}

WindowTx(offset) ==
  [UserTx(OwnerKey, UserAddr, 1, MIN_TX_FEE, <<"w", offset>>, "signed")
     EXCEPT !.timestamp = T0 + offset]

WindowFrame ==
  UNCHANGED <<blockchain, lmdb_blocks, pending_txs, advanced_mempool,
              checkpoints, reorg_attempts, health, sync_failures,
              broadcast_tasks>>

test_replay_attack_protection ==
  \E offset \in WindowOffsets, current_time \in Clock :
    LET tx == WindowTx(offset)
        v == validate_transaction_pouv(tx, blockchain, pending_txs, validation,
                                       current_time)
    IN  /\ validation' = v.validation
        /\ last_response' = [op |-> "validate_transaction",
                             status |-> IF v.ok THEN "ok" ELSE "error",
                             reason |-> v.reason, txid |-> tx.txid,
                             timestamp |-> tx.timestamp,
                             current_time |-> current_time]
        /\ now' = now
        /\ WindowFrame

WindowTick ==
  /\ now < T0 + WindowTicks
  /\ now' = now + 1
  /\ UNCHANGED <<validation, last_response>>
  /\ WindowFrame

NextWindow ==
  \/ test_replay_attack_protection
  \/ WindowTick

SpecWindow == Init /\ [][NextWindow]_vars

-----------------------------------------------------------------------------
\* Tokenized assets (app/core/assets.py).  The asset under test is carried in
\* last_response, as the unit tests carry it in a local variable; amounts are
\* whole units.

AssetSupply == 2

AssetMaxTransfers == 3

AssetHolders == {OwnerAddr, UserAddr, IntruderAddr}

AssetAmounts == (0 - 1) .. (AssetSupply + 1)

\* Asset.__init__: the owner holds the whole supply of a fractional asset and
\* 1 unit of a whole one; the history opens with the CREATED event.
NewAsset(total_supply, owner_address, fractional) ==
  [total_supply |-> total_supply,
   owner_address |-> owner_address,
   fractional |-> fractional,
   balances |-> PutKey(EmptyMap, owner_address,
                       IF fractional THEN total_supply ELSE 1),
   history |-> <<[event |-> "CREATED", from |-> owner_address,
                  to |-> "None", amount |-> total_supply]>>]

\* Asset.get_balance: balances.get(address, 0.0).
asset_get_balance(asset, address) ==
  IF address \in DOMAIN asset.balances THEN asset.balances[address] ELSE 0

\* Asset.transfer: the two checks, then debit, credit, removal of a zero
\* sender entry and the TRANSFER event, in the order of the code.
Asset_transfer(asset, from_address, to_address, amount) ==
  IF asset_get_balance(asset, from_address) < amount
  THEN [success |-> FALSE, message |-> "Insufficient asset balance",
        asset |-> asset]
  ELSE IF ~asset.fractional /\ amount # 1
  THEN [success |-> FALSE,
        message |-> "Non-fractional assets must be transferred whole",
        asset |-> asset]
  ELSE
    LET debited == PutKey(asset.balances, from_address,
                          asset_get_balance(asset, from_address) - amount)
        credited == PutKey(debited, to_address,
                           (IF to_address \in DOMAIN debited
                            THEN debited[to_address] ELSE 0) + amount)
        cleaned == IF credited[from_address] = 0
                   THEN DropKey(credited, from_address) ELSE credited
    IN  [success |-> TRUE, message |-> "Transfer successful",
         asset |-> [asset EXCEPT
                      !.balances = cleaned,
                      !.history = Append(@, [event |-> "TRANSFER",
                                             from |-> from_address,
                                             to |-> to_address,
                                             amount |-> amount])]]

AssetFrame ==
  UNCHANGED <<blockchain, lmdb_blocks, pending_txs, advanced_mempool,
              validation, checkpoints, reorg_attempts, health,
              sync_failures, broadcast_tasks, now>>

\* The tests' set-up: a whole or a fractional asset owned by the owner.
asset_create ==
  /\ last_response.op = "startup"
  /\ \E fractional \in BOOLEAN :
       last_response' = [op |-> "asset_create", status |-> "ok",
                         asset |-> NewAsset(AssetSupply, OwnerAddr, fractional)]
  /\ AssetFrame

\* One call of Asset.transfer on the asset under test.
asset_transfer ==
  /\ last_response.op \in {"asset_create", "asset_transfer"}
  /\ Len(last_response.asset.history) <= AssetMaxTransfers
  /\ \E from_address \in AssetHolders, to_address \in AssetHolders,
        amount \in AssetAmounts :
       LET result == Asset_transfer(last_response.asset, from_address,
                                    to_address, amount)
       IN  last_response' = [op |-> "asset_transfer",
                             status |-> IF result.success THEN "ok" ELSE "error",
                             message |-> result.message,
                             from |-> from_address, to |-> to_address,
                             amount |-> amount,
                             asset |-> result.asset]
  /\ AssetFrame

NextAsset == asset_create \/ asset_transfer

SpecAsset == Init /\ [][NextAsset]_vars

\* ------------------------------------------------------------ properties
\* The addresses balances are kept for.
Addresses == {OwnerAddr, MinerAddr, UserAddr, IntruderAddr}

\* Positions of the transactions of a block sent by `sender`.
TxsFrom(block, sender) ==
  {k \in 1..Len(block.transactions) : block.transactions[k].sender = sender}

\* Summed fees of the non-system transactions of a block.
RECURSIVE SumFees(_)
SumFees(txs) ==
  IF txs = <<>> THEN 0
  ELSE (IF Head(txs).sender \in SystemSenders THEN 0 ELSE Head(txs).fee)
       + SumFees(Tail(txs))

\* The reward of the block at height h: what get_current_block_reward
\* returns while the chain holds h blocks.
BlockRewardAt(h) == RewardAtHeight(h)

\* Number of leading positions at which two chains hold the same block.
CommonPrefixLen(a, b) ==
  LET m == IF Len(a) < Len(b) THEN Len(a) ELSE Len(b)
      differ == {i \in 1..m : a[i] # b[i]}
  IN  IF differ = {} THEN m
      ELSE (CHOOSE i \in differ : \A j \in differ : i <= j) - 1

\* A step in which sync_with_peer replaced the local chain.
SyncAdopted ==
  /\ blockchain' # blockchain
  /\ last_response'.op = "sync_with_peer"

\* C1 -- Chain continuity (P1): in every reachable state each block after the
\* first links to the hash of its predecessor and carries the predecessor's
\* index plus one.
C1_ChainContinuity ==
  \A i \in 2..Len(blockchain) :
    /\ blockchain[i].prev_hash = blockchain[i - 1].hash
    /\ blockchain[i].index = blockchain[i - 1].index + 1

\* C2 -- No negative balance (P5): over every prefix of the confirmed chain
\* the balance of every non-system address is at least zero.
C2_NoNegativeBalance ==
  \A k \in 1..Len(blockchain) : \A a \in Addresses :
    get_balance(a, SubSeq(blockchain, 1, k), <<>>) >= 0

\* C3 -- Fee conservation (P4): every block of the chain whose non-system
\* transactions carry fees F > 0 holds exactly one miners_pool transaction,
\* paying F to the recipient of the block's coinbase.
C3_FeeConservation ==
  \A i \in 1..Len(blockchain) :
    LET block == blockchain[i]
        F == SumFees(block.transactions)
        pool == TxsFrom(block, "miners_pool")
    IN  F > 0 =>
          /\ Cardinality(pool) = 1
          /\ \A k \in pool :
               /\ block.transactions[k].amount = F
               /\ \E c \in TxsFrom(block, "coinbase") :
                    block.transactions[c].recipient = block.transactions[k].recipient

\* C4 -- Coinbase uniqueness (P3): every block of the chain above height 0,
\* appended by submit_block or adopted by sync_with_peer, holds exactly one
\* coinbase transaction and its amount is the block reward of that height.
\* (Height 0 is left out: create_genesis_block pays the owner allocation.)
C4_CoinbaseUniqueness ==
  \A i \in 2..Len(blockchain) :
    LET block == blockchain[i]
        cbs == TxsFrom(block, "coinbase")
    IN  /\ Cardinality(cbs) = 1
        /\ \A c \in cbs : block.transactions[c].amount = BlockRewardAt(i - 1)

\* C5 -- Txid uniqueness (P6): no two transactions of the chain, user or
\* system, in one block or in different blocks, carry the same txid.
C5_TxidUniqueness ==
  \A i, j \in 1..Len(blockchain) :
    \A k \in 1..Len(blockchain[i].transactions) :
      \A l \in 1..Len(blockchain[j].transactions) :
        (i # j \/ k # l) =>
          blockchain[i].transactions[k].txid # blockchain[j].transactions[l].txid

\* C6 -- Hash integrity and proof of work (P2): every block of the chain
\* above height 0, however it entered, carries the digest of its own content
\* and that digest starts with DIFFICULTY zeros.  (Height 0 is left out:
\* create_genesis_block does not mine.)
C6_HashIntegrity ==
  \A i \in 2..Len(blockchain) :
    /\ blockchain[i].hash = hash_block(blockchain[i])
    /\ StartsWithZeros(blockchain[i].hash, DIFFICULTY)

\* C7 -- Checkpoint immutability (P9): a recorded checkpoint (h, H) binds
\* every later state: the chain then holds a block at height h with hash H.
C7_CheckpointImmutability ==
  [][\A h \in DOMAIN checkpoints :
       /\ h < Len(blockchain')
       /\ blockchain'[h + 1].hash = checkpoints[h]]_vars

\* C8 -- Checkpoint defense: sync_with_peer never replaces the local chain
\* by a chain whose block at a checkpointed height differs from the
\* checkpoint the node holds.
C8_CheckpointDefense ==
  [][SyncAdopted => validate_chain_against_checkpoints(checkpoints, blockchain')]_vars

\* C9 -- Reorganization depth guard: a chain replacement by sync_with_peer
\* rewrites at most max_reorg_depth blocks of the local tip.
C9_ReorgDepthGuard ==
  [][SyncAdopted =>
       Len(blockchain) - CommonPrefixLen(blockchain, blockchain') <= max_reorg_depth]_vars

\* C10 -- Genesis invariant: the first block of the chain has index 0, links
\* to the all-zero hash and holds exactly one coinbase transaction, paying a
\* tenth of the total supply to this node's owner address.
C10_GenesisInvariant ==
  LET g == blockchain[1]
      cbs == TxsFrom(g, "coinbase")
  IN  /\ g.index = 0
      /\ g.prev_hash = ZERO_HASH
      /\ Cardinality(cbs) = 1
      /\ \A c \in cbs :
           /\ g.transactions[c].recipient = OwnerAddr
           /\ g.transactions[c].amount = TOTAL_SUPPLY \div 10

\* The txids a step admits to the mempool.
NewlyAdmitted ==
  DOMAIN advanced_mempool'.tx_index \ DOMAIN advanced_mempool.tx_index

\* C11 -- Double spend: a transaction is admitted to the mempool only when
\* the sender's balance over the chain and the pending pool covers amount
\* plus fee, the admitted transaction joins the pending pool, and the two
\* spends of six tenths of the owner's balance are never both resident.
C11_DoubleSpend ==
  [][/\ \A t \in NewlyAdmitted :
          LET tx == advanced_mempool'.tx_index[t]
          IN  /\ get_balance(tx.sender, blockchain, pending_txs) >= tx.amount + tx.fee
              /\ \E i \in 1..Len(pending_txs') : pending_txs'[i].txid = t
      /\ ~({OwnerSpend(1).txid, OwnerSpend(2).txid}
             \subseteq DOMAIN advanced_mempool'.tx_index)]_vars

\* One large spend is resident and pending, and the last send_tx was refused.
C11_Witness ==
  /\ DOMAIN advanced_mempool.tx_index = {OwnerSpend(1).txid}
  /\ pending_txs = <<OwnerSpend(1)>>
  /\ Len(blockchain) = 1
  /\ OwnerSpend(2).txid \notin DOMAIN validation
  /\ last_response = [op |-> "send_tx", status |-> "error"]

\* C12 -- Replay rejection: send_tx never admits to the mempool a
\* transaction whose txid is held by a block of the local chain, however
\* that block entered the chain.
C12_ReplayRejection ==
  [][\A t \in NewlyAdmitted : ~TxidInChain(t, blockchain)]_vars

\* Every check of the POUV list on the content of tx, at time current_time.
PouvChecks(tx, chain, pending, current_time) ==
  /\ RequiredFields \subseteq DOMAIN tx
  /\ tx.timestamp <= current_time + MAX_CLOCK_SKEW
  /\ current_time - tx.timestamp <= MAX_TX_AGE
  /\ tx.sender \in SystemSenders \/ validate_signature(tx)
  /\ TxidLen(tx.txid) = TXID_LENGTH
  /\ tx.amount > 0
  /\ tx.sender \in SystemSenders \/ tx.fee >= MIN_TX_FEE
  /\ tx.sender \in SystemSenders
       \/ get_balance(tx.sender, chain, pending) >= tx.amount + tx.fee

\* C13 -- POUV completeness: a transaction passes validation, and so is
\* admitted by send_tx, only if every check of the list holds for its
\* content at that time, also when its txid has a stored validation record.
C13_PouvCompleteness ==
  [][\A t \in NewlyAdmitted :
       PouvChecks(advanced_mempool'.tx_index[t], blockchain, pending_txs, now)]_vars

\* A step of add_transaction on the mempool object: the call of the
\* transaction last_response'.txid, answered with last_response'.status.
AddStep ==
  /\ last_response'.op = "add_transaction"
  /\ now' = now

AddedTx == CHOOSE tx \in MempoolTxs : tx.txid = last_response'.txid

ResidentFees(mempool) ==
  {mempool.priority_queue[i].tx.fee : i \in 1..Len(mempool.priority_queue)}

LowestFee(mempool) ==
  CHOOSE f \in ResidentFees(mempool) : \A g \in ResidentFees(mempool) : f <= g

\* C14 -- Mempool eviction rule: add_transaction on a mempool at capacity
\* (of a well-formed, fresh, non-resident transaction) admits it iff its fee
\* is strictly greater than the lowest resident fee and then evicts one
\* resident of that lowest fee; otherwise it answers 'mempool full - fee too
\* low' and leaves the mempool unchanged.
C14_EvictionRule ==
  [][(/\ AddStep
      /\ get_size(advanced_mempool) >= MempoolCap
      /\ last_response'.txid \notin DOMAIN advanced_mempool.tx_index
      /\ now - AddedTx.timestamp <= mempool_max_tx_age)
     => IF AddedTx.fee > LowestFee(advanced_mempool)
          THEN \E evicted \in DOMAIN advanced_mempool.tx_index :
                 /\ advanced_mempool.tx_index[evicted].fee
                      = LowestFee(advanced_mempool)
                 /\ DOMAIN advanced_mempool'.tx_index
                      = (DOMAIN advanced_mempool.tx_index \ {evicted})
                          \cup {AddedTx.txid}
          ELSE /\ last_response'.status = "mempool full - fee too low"
               /\ advanced_mempool' = advanced_mempool]_vars

\* C15 -- Mempool order (P7): in every reachable mempool state the list
\* returned by get_transactions_for_mining is sorted by fee descending, and
\* transactions of equal fee appear in ascending timestamp order.
C15_MempoolOrder ==
  LET txs == get_transactions_for_mining(advanced_mempool, now,
                                         mempool_max_tx_age, MaxCount).transactions
  IN  \A i \in 1..(Len(txs) - 1) :
        \/ txs[i].fee > txs[i + 1].fee
        \/ /\ txs[i].fee = txs[i + 1].fee
           /\ txs[i].timestamp <= txs[i + 1].timestamp

\* C16 -- Mempool cap (P8): after any sequence of calls of the mempool's
\* methods the size of the mempool is at most max_size.
C16_MempoolCap == get_size(advanced_mempool) <= MempoolCap

\* The mempool is full and the last add_transaction was refused for its fee.
C16_Witness ==
  /\ get_size(advanced_mempool) = MempoolCap
  /\ last_response.op = "add_transaction"
  /\ last_response.status = "mempool full - fee too low"

NoSharedTxid(mempool) ==
  /\ \A i, j \in 1..Len(mempool.priority_queue) :
       i # j => mempool.priority_queue[i].txid # mempool.priority_queue[j].txid
  /\ DOMAIN mempool.tx_index
       = {mempool.priority_queue[i].txid : i \in 1..Len(mempool.priority_queue)}

\* C17 -- Duplicate admission (L3): add_transaction of a transaction that is
\* already resident answers 'already in mempool' and leaves the mempool
\* unchanged, and no two mempool entries ever share a txid.
C17_DuplicateAdmission ==
  [][/\ (AddStep /\ last_response'.txid \in DOMAIN advanced_mempool.tx_index)
          => /\ last_response'.status = "transaction already in mempool"
             /\ advanced_mempool' = advanced_mempool
     /\ NoSharedTxid(advanced_mempool')]_vars

\* The transaction admitted by one call has just been refused by the next.
C17_Witness ==
  /\ last_response.op = "add_transaction"
  /\ last_response.status = "transaction already in mempool"
  /\ last_response.txid \in DOMAIN advanced_mempool.tx_index

\* The failure count, the status, the failed set, is_healthy and
\* get_healthy_peers agree on which peers have failed.
HealthConsistent(h) ==
  \A p \in HealthPeers :
    /\ (FailuresOf(h, p) >= max_failures) <=> ~is_healthy(h, p)
    /\ ~is_healthy(h, p) <=> /\ p \in DOMAIN h.peer_health
                             /\ h.peer_health[p].status = "failed"
                             /\ p \in h.failed_peers
    /\ is_healthy(h, p) <=> p \in get_healthy_peers(h, HealthPeers)

\* C18 -- Peer failure threshold: a peer with three or more failures since
\* its last success has status 'failed', is not healthy and is not among the
\* healthy peers, a peer with fewer is healthy; broadcast_block leaves a failed
\* peer alone, and sync_with_best_peer contacts a failed peer only after the
\* probe that runs when no peer is healthy.
C18_FailureThreshold ==
  [][/\ HealthConsistent(health')
     /\ last_response'.op = "broadcast_block"
          => \A p \in HealthPeers :
               ~is_healthy(health, p)
                 => /\ ~is_healthy(health', p)
                    /\ health'.peer_health[p] = health.peer_health[p]
     /\ last_response'.op = "periodic_sync"
          => \A p \in last_response'.synced :
               \/ is_healthy(health, p)
               \/ get_healthy_peers(health, HealthPeers) = {}]_vars

\* One peer has just reached three failures and the round of periodic_sync
\* that followed went to the other peer only.
C18_Witness ==
  \E p \in HealthPeers :
    /\ FailuresOf(health, p) = max_failures
    /\ ~is_healthy(health, p)
    /\ last_response.op = "periodic_sync"
    /\ last_response.synced = HealthPeers \ {p}

\* C19 -- Peer health transitions: for every tracked peer a success leaves
\* failures 0 and status 'healthy'; a failure count of 1 or 2 goes with
\* status 'degraded' (also when the peer was healthy before the failure),
\* and a count of 3 or more with status 'failed'.
C19_HealthTransitions ==
  \A p \in DOMAIN health.peer_health :
    health.peer_health[p].status
      = IF health.peer_health[p].failures = 0 THEN "healthy"
        ELSE IF health.peer_health[p].failures < max_failures THEN "degraded"
        ELSE "failed"

\* C20 -- Sync frame condition: a sync step (sync_with_peer alone or inside
\* periodic_sync) changes the in-memory chain or the persisted chain only by
\* adopting a verified chain that is strictly longer than the local chain.
C20_SyncFrame ==
  [][(/\ last_response'.op \in {"sync_with_peer", "periodic_sync"}
      /\ blockchain' # blockchain \/ lmdb_blocks' # lmdb_blocks)
     => /\ Len(blockchain') > Len(blockchain)
        /\ verify_blockchain(blockchain')
        /\ last_response'.status = "adopted"]_vars

\* A sync with a peer has just been answered by something the node did not
\* adopt, the local chain holding a block of its own.
C20_Witness ==
  /\ last_response = [op |-> "sync_with_peer", status |-> "kept"]
  /\ Len(blockchain) > 1
  /\ lmdb_blocks = LmdbSave(blockchain)
  /\ \E p \in HealthPeers : FailuresOf(health, p) > 0

\* C21 -- Applied difficulty: the number of leading zeros validate_block
\* requires of the next block equals the difficulty that mining_info
\* reports for the current chain.
C21_AppliedDifficulty ==
  mining_info(blockchain, advanced_mempool).difficulty = DIFFICULTY

\* The store holds block B under B's index.
Persisted(B) == B.index \in DOMAIN lmdb_blocks /\ lmdb_blocks[B.index] = B

\* C22 -- Gossip after persistence: every block whose broadcast has been
\* scheduled and not yet run is held by the persisted chain, so no peer is
\* sent a block the store does not contain.
C22_GossipAfterPersistence ==
  \A i \in 1..Len(broadcast_tasks) : Persisted(broadcast_tasks[i])

\* C23 -- Fatal storage error: submit_block reports a block as accepted only
\* when the save of the chain holding it went through, and once the store
\* is behind the in-memory chain no block is appended and no chain adopted.
C23_FatalStorageError ==
  [][/\ (last_response'.op = "submit_block" /\ last_response'.status = "accepted")
          => lmdb_blocks' = LmdbSave(blockchain')
     /\ lmdb_blocks # LmdbSave(blockchain) => blockchain' = blockchain]_vars

\* C24 -- Reward schedule: the reward at height h is STARTING_BLOCK_REWARD
\* halved (h div HALVING_INTERVAL) times, never below 0.0001 (ten times the
\* smallest amount), and the reward one halving interval later is not higher.
C24_RewardSchedule ==
  last_response.op = "get_current_block_reward"
    => LET h == last_response.height
           halved == STARTING_BLOCK_REWARD \div (2 ^ (h \div HALVING_INTERVAL))
       IN  /\ last_response.reward = Max2(halved, 10 * MIN_BLOCK_REWARD)
           /\ last_response.reward >= 10 * MIN_BLOCK_REWARD
           /\ RewardAtHeight(h + HALVING_INTERVAL) <= last_response.reward

\* C25 -- System-transaction sentinel: every transaction with sender
\* 'coinbase' or 'miners_pool' of a block that submit_block accepts carries
\* the signature 'genesis'.
C25_SystemSentinel ==
  [][(last_response'.op = "submit_block" /\ blockchain' # blockchain)
     => LET block == blockchain'[Len(blockchain')]
        IN  \A k \in 1..Len(block.transactions) :
              block.transactions[k].sender \in SystemSenders
                => block.transactions[k].signature = "genesis"]_vars

\* C26 -- Mempool lifecycle: in every reachable state no txid is both held
\* by a block of the local chain and resident in the mempool.
C26_MempoolLifecycle ==
  \A t \in DOMAIN advanced_mempool.tx_index : ~TxidInChain(t, blockchain)

\* C27 -- Checkpoint write-once: once a hash is recorded for a height, no
\* step changes or drops the hash stored for that height.
C27_CheckpointWriteOnce ==
  [][\A h \in DOMAIN checkpoints :
       /\ h \in DOMAIN checkpoints'
       /\ checkpoints'[h] = checkpoints[h]]_vars

\* C28 -- Checkpoint coverage: for every height h below the length of the
\* chain with h a multiple of the checkpoint interval, height 0 included, the
\* checkpoint map holds the hash of the block at height h.
C28_CheckpointCoverage ==
  \A h \in 0..(Len(blockchain) - 1) :
    h % checkpoint_interval = 0
      => /\ h \in DOMAIN checkpoints
         /\ checkpoints[h] = blockchain[h + 1].hash

\* C29 -- Difficulty adjustment rule: calculate_difficulty returns a value in
\* [1, 10]; at an adjustment point (length a non-zero multiple of the window)
\* with ratio = expected / elapsed over the window the result is current - 1
\* if ratio > 1.5, current + 1 if ratio < 0.67 and current otherwise, clamped
\* to [1, 10]; and a window mined faster than target (elapsed below expected)
\* raises the difficulty, so at the least it does not lower it.
C29_DifficultyRule ==
  last_response.op = "calculate_difficulty" =>
    LET chain == last_response.chain
        n == Len(chain)
        result == last_response.difficulty
        elapsed == chain[n].timestamp - chain[n - adjustment_interval + 1].timestamp
        expected == target_block_time * adjustment_interval
        current == Max2(min_difficulty,
                        Min2(max_difficulty, LeadingZeros(chain[n].hash)))
    IN  /\ result \in min_difficulty..max_difficulty
        /\ (n > 0 /\ n % adjustment_interval = 0) =>
             /\ (elapsed > 0 /\ 10 * expected > 15 * elapsed)
                  => result = Max2(min_difficulty, current - 1)
             /\ (elapsed > 0 /\ 10 * expected <= 15 * elapsed
                             /\ 100 * expected < 67 * elapsed)
                  => result = Min2(max_difficulty, current + 1)
             /\ (elapsed > 0 /\ 10 * expected <= 15 * elapsed
                             /\ 100 * expected >= 67 * elapsed)
                  => result = current
             /\ elapsed < expected => result >= current

\* C30 -- Timestamp window inclusive at both ends: a validation that reaches
\* the timestamp check (no stored record for the txid) of an otherwise valid
\* transaction accepts it iff now - 3600 <= timestamp <= now + 60, rejects it
\* as 'future' iff the timestamp is later than now + 60, and as 'too old' iff
\* it is older than 3600 s.
C30_TimestampWindow ==
  [][(/\ last_response'.op = "validate_transaction"
      /\ now' = now
      /\ last_response'.txid \notin DOMAIN validation)
       => LET ts == last_response'.timestamp
              t == last_response'.current_time
          IN  /\ last_response'.status = "ok"
                   <=> (t - MAX_TX_AGE <= ts /\ ts <= t + MAX_CLOCK_SKEW)
              /\ last_response'.reason = "future" <=> ts > t + MAX_CLOCK_SKEW
              /\ last_response'.reason = "too old" <=> ts < t - MAX_TX_AGE]_vars

\* Both ends of the window have been accepted: a record stands for the
\* transaction stamped now + 60 s and the last call accepted the one stamped
\* now - 3600 s.
C30_Witness ==
  /\ last_response.op = "validate_transaction"
  /\ last_response.status = "ok"
  /\ last_response.timestamp = last_response.current_time - MAX_TX_AGE
  /\ \E t \in DOMAIN validation :
       /\ t = WindowTx(now - T0 + MAX_CLOCK_SKEW).txid
       /\ validation[t].status = "valid"

\* C31 -- Network-partition detection: in a round of periodic_sync that is
\* the fifth or later in a row without an adoption, the partition warning
\* condition sync_failures >= max_sync_failures holds, and the round leaves
\* the local chain unchanged.
C31_PartitionDetection ==
  [][(/\ last_response'.op = "periodic_sync"
      /\ last_response'.idle >= max_sync_failures)
       => /\ sync_failures' >= max_sync_failures
          /\ last_response'.partition_warning
          /\ blockchain' = blockchain]_vars

\* C32 -- Failed-peer recovery: a peer that is marked failed and answers
\* every ping from then on is eventually restored (removed from the failed
\* set) by the periodic task, also while another peer stays healthy.
C32_FailedPeerRecovery ==
  \A p \in HealthPeers :
    (p \in health.failed_peers) ~> (p \notin health.failed_peers)

\* C33 -- Chain write exclusion: over all interleavings of submit_block
\* requests and sync_with_peer runs, every change of the chain makes it
\* longer, so no height is appended to twice; a block appended by
\* submit_block extends the chain it was validated against, linking to the
\* hash of the tip of that chain with the index that follows the tip's; and a
\* chain put in place by sync_with_peer is the verified chain.
C33_ChainWriteExclusion ==
  [][blockchain' # blockchain =>
       /\ Len(blockchain') > Len(blockchain)
       /\ last_response'.op = "submit_block" =>
            LET block == blockchain'[Len(blockchain')]
                tip == blockchain[Len(blockchain)]
            IN  /\ blockchain' = Append(blockchain, block)
                /\ block.prev_hash = tip.hash
                /\ block.index = tip.index + 1
       /\ last_response'.op = "sync_with_peer" =>
            verify_blockchain(blockchain')]_vars

\* A block was accepted by submit_block on top of a chain that
\* sync_with_peer had put in place of the local one.
C33_Witness ==
  /\ Len(blockchain) = 3
  /\ last_response.op = "submit_block"
  /\ last_response.status = "accepted"
  /\ blockchain[2].nonce = 2
  /\ blockchain[3].nonce \in {1, 3}

\* C34 -- Append effects: when submit_block answers 'accepted', the chain is
\* the former chain with the block as its last element, none of the block's
\* non-system txids is left in the mempool (index or queue) or in the
\* pending list, and the checkpoint map holds the block's hash under its
\* index when the index is a multiple of the interval.
C34_AppendEffects ==
  [][(/\ last_response'.op = "submit_block"
      /\ last_response'.status = "accepted")
       => LET block == blockchain'[Len(blockchain')]
          IN  /\ blockchain' = Append(blockchain, block)
              /\ \A t \in MinedTxids(block) :
                   /\ t \notin DOMAIN advanced_mempool'.tx_index
                   /\ \A i \in 1..Len(advanced_mempool'.priority_queue) :
                        advanced_mempool'.priority_queue[i].txid # t
                   /\ \A i \in 1..Len(pending_txs') : pending_txs'[i].txid # t
              /\ block.index % checkpoint_interval = 0
                   => /\ block.index \in DOMAIN checkpoints'
                      /\ checkpoints'[block.index] = block.hash]_vars

\* A block was accepted with the first large spend of the owner in it while
\* the small spend submitted alongside is still resident and pending.
C34_Witness ==
  /\ last_response.op = "submit_block"
  /\ last_response.status = "accepted"
  /\ OwnerSpend(1).txid \in MinedTxids(blockchain[Len(blockchain)])
  /\ DOMAIN advanced_mempool.tx_index = {<<"u", 3>>}
  /\ Len(pending_txs) = 1

\* C35 -- Rejected block leaves no trace: when submit_block answers with an
\* error, for a validation failure or for a checkpoint violation, the chain
\* in memory, the persisted chain, the mempool and the checkpoint map are
\* what they were before the call.
C35_RejectedBlockNoTrace ==
  [][(/\ last_response'.op = "submit_block"
      /\ last_response'.status \in {"error", "checkpoint violation"})
       => /\ blockchain' = blockchain
          /\ lmdb_blocks' = lmdb_blocks
          /\ advanced_mempool' = advanced_mempool
          /\ checkpoints' = checkpoints]_vars

\* C36 -- System senders cannot enter through send_tx: no transaction whose
\* sender is 'coinbase' or 'miners_pool' is resident in the mempool or in the
\* pending list, whatever its amount and fee.
C36_SystemSendersKeptOut ==
  /\ \A t \in DOMAIN advanced_mempool.tx_index :
       advanced_mempool.tx_index[t].sender \notin SystemSenders
  /\ \A i \in 1..Len(pending_txs) : pending_txs[i].sender \notin SystemSenders

\* C37 -- Pending views agree: the txids of the legacy pending list are the
\* txids of the fee-priority mempool.
C37_PendingViewsAgree ==
  {pending_txs[i].txid : i \in 1..Len(pending_txs)}
    = DOMAIN advanced_mempool.tx_index

\* C38 -- Peer health consistency: for every peer, membership in
\* failed_peers, a recorded status 'failed' and a failure count of three or
\* more go together, and is_healthy is false for exactly those peers.
C38_PeerHealthConsistency ==
  \A p \in HealthPeers :
    LET listed == p \in health.failed_peers
        failed == /\ p \in DOMAIN health.peer_health
                  /\ health.peer_health[p].status = "failed"
        counted == FailuresOf(health, p) >= max_failures
    IN  /\ listed <=> failed
        /\ failed <=> counted
        /\ is_healthy(health, p) <=> ~listed

\* One peer has gone on failing after it was marked failed while the other
\* is tracked with no failure.
C38_Witness ==
  \E p, q \in HealthPeers :
    /\ FailuresOf(health, p) > max_failures
    /\ p \in health.failed_peers
    /\ health.peer_health[p].status = "failed"
    /\ q \in DOMAIN health.peer_health
    /\ health.peer_health[q] = [failures |-> 0, status |-> "healthy"]
    /\ is_healthy(health, q)

\* C39 -- Asset balances never negative: after a call of Asset.transfer no
\* address holds a negative balance of the asset, and a transfer of more than
\* the sender holds is rejected and leaves the asset as it was.
C39_AssetBalancesNonNegative ==
  [][last_response'.op = "asset_transfer" =>
       /\ \A a \in DOMAIN last_response'.asset.balances :
            last_response'.asset.balances[a] >= 0
       /\ last_response'.amount >
            asset_get_balance(last_response.asset, last_response'.from) =>
              /\ last_response'.status = "error"
              /\ last_response'.asset = last_response.asset]_vars

\* C40 -- Mempool index consistency: in every state reached by
\* add_transaction (with or without eviction), remove_transaction,
\* _remove_expired and clear, the keys of tx_index are the txids stored in
\* priority_queue, and priority_queue holds each txid once.
C40_MempoolIndexConsistency ==
  LET q == advanced_mempool.priority_queue
      queued == {q[i].txid : i \in 1..Len(q)}
  IN  /\ DOMAIN advanced_mempool.tx_index = queued
      /\ Cardinality(queued) = Len(q)
      /\ \A i \in 1..Len(q) : advanced_mempool.tx_index[q[i].txid] = q[i].tx

\* get_transactions_for_mining has run after the first transactions' age
\* limit passed, and what is left in the mempool is a later transaction.
C40_Witness ==
  /\ last_response.op = "get_transactions_for_mining"
  /\ now - T0 > mempool_max_tx_age
  /\ advanced_mempool.priority_queue # <<>>
  /\ \A t \in DOMAIN advanced_mempool.tx_index :
       now - advanced_mempool.tx_index[t].timestamp <= mempool_max_tx_age

====
